---------------------------- MODULE Spec2Model ----------------------------
(***************************************************************************)
(* A state-machine model of the sdlw widget toolkit (src/sdlwin.cpp,       *)
(* src/sdlwin.hpp): the Window event pump, the tri-state event routing of  *)
(* Panel / ScrollPanel, and the interactive widgets Button, Slider,        *)
(* TextInput and ColorSelect.                                              *)
(*                                                                         *)
(* A component is a record; its "kind" field is its dynamic type and       *)
(* HandleEvent dispatches on it as the virtual call does.  Every           *)
(* handleEvent operator returns a record                                   *)
(*     [status, comp, log, calls]                                          *)
(* with the status returned, the component after the call, the list of     *)
(* handleEvent invocations made (pre-order, <<id, status>> records) and    *)
(* the list of user callbacks invoked.                                     *)
(*                                                                         *)
(* Slider::val is a float.  The model keeps it exactly, as the integer     *)
(* val * valPxCount(): every value the code adds to val is a multiple of   *)
(* upp() = (max - min) / valPxCount().  Rounding error of the float        *)
(* arithmetic is not modelled.                                             *)
(***************************************************************************)
EXTENDS Integers, Sequences, FiniteSets, TLC

VARIABLES
    state,          \* Window::state
    pendingUpdate,  \* Window::pendingUpdate
    components,     \* Window::components, in the map's iteration order
    pc,             \* position of Window::run: "top", "events", "returned"
    last,           \* observation of the last operation (history, not program state)
    run,            \* callbacks of the current run of drag samples (history)
    frame           \* what happened in the current turn of Window::run (history)

vars == <<state, pendingUpdate, components, pc, last, run, frame>>

-----------------------------------------------------------------------------
(* Bounds of the model *)

MaxChildren == 4    \* children a ScrollPanel may be given
MaxShown == 3       \* largest ScrollPanel::numShown tried
MaxLen == 3         \* longest TextInput text
MaxCoord == 2       \* largest pointer coordinate sent to a lone Slider
MaxRows == 2        \* most rows that a Dropdown is given
MaxShift == 1       \* farthest that a component is moved from the origin

-----------------------------------------------------------------------------
(* Component::EventStatus.  IGNORED converts to false, the others to true  *)
(* (`if (auto status = comp->handleEvent(event))`).                        *)

IGNORED == "IGNORED"
HANDLED == "HANDLED"
FORWARDED == "FORWARDED"

Truthy(status) == status # IGNORED

-----------------------------------------------------------------------------
(* SDL events *)

NoEvent == [type |-> "NONE", x |-> 0, y |-> 0, clicks |-> 0, wheel |-> 0,
            ch |-> "", sym |-> ""]
Motion(x, y) == [NoEvent EXCEPT !.type = "MOUSEMOTION", !.x = x, !.y = y]
Down(x, y, n) == [NoEvent EXCEPT !.type = "MOUSEBUTTONDOWN", !.x = x, !.y = y,
                                 !.clicks = n]
Up(x, y) == [NoEvent EXCEPT !.type = "MOUSEBUTTONUP", !.x = x, !.y = y]
Wheel(dy) == [NoEvent EXCEPT !.type = "MOUSEWHEEL", !.wheel = dy]
TextEv(c) == [NoEvent EXCEPT !.type = "TEXTINPUT", !.ch = c]
KeyDown(k) == [NoEvent EXCEPT !.type = "KEYDOWN", !.sym = k]
KeyUp(k) == [NoEvent EXCEPT !.type = "KEYUP", !.sym = k]
Quit == [NoEvent EXCEPT !.type = "QUIT"]

-----------------------------------------------------------------------------
(* Geometry *)

Rect(x, y, w, h) == [x |-> x, y |-> y, w |-> w, h |-> h]
Point(x, y) == [x |-> x, y |-> y]

\* SDL_PointInRect, as used by Component::posInside
PointInRect(p, r) ==
    /\ p.x >= r.x /\ p.x < r.x + r.w
    /\ p.y >= r.y /\ p.y < r.y + r.h

posInside(c, p) == PointInRect(p, c.rect)

\* inline constexpr static int sgn(int x) { return (x < 0) - (x > 0); }
sgn(x) == (IF x < 0 THEN 1 ELSE 0) - (IF x > 0 THEN 1 ELSE 0)

\* std::round of the rational a / b (b > 0): halfway cases away from zero
RoundDiv(a, b) ==
    IF a >= 0 THEN (2 * a + b) \div (2 * b)
    ELSE -((2 * (-a) + b) \div (2 * b))

\* the result of one handleEvent call
Res(status, comp, log, calls) ==
    [status |-> status, comp |-> comp, log |-> log, calls |-> calls]

Offer(c, status) == [id |-> c.id, status |-> status]

-----------------------------------------------------------------------------
(* Component: hover and click helpers *)

\* Component::handleHoverHL: TRUE iff the hover flag flips
hoverFlips(c, ev) ==
    /\ ev.type = "MOUSEMOTION"
    /\ posInside(c, Point(ev.x, ev.y)) # c.hovered

\* Component::thisWasClicked
thisWasClicked(c, ev) ==
    IF ev.type = "MOUSEBUTTONDOWN" /\ posInside(c, Point(ev.x, ev.y))
    THEN ev.clicks ELSE 0

\* Component::clickOutside
clickOutside(c, ev) ==
    IF ev.type = "MOUSEBUTTONDOWN" /\ ~posInside(c, Point(ev.x, ev.y))
    THEN ev.clicks ELSE 0

\* Component::translate
translateRect(r, dx, dy) == [r EXCEPT !.x = r.x + dx, !.y = r.y + dy]

-----------------------------------------------------------------------------
(* Text: never reacts *)

NewText(id, rect) ==
    [kind |-> "Text", id |-> id, rect |-> rect, hovered |-> FALSE, shown |-> TRUE]

TextHandleEvent(c, ev) == Res(IGNORED, c, <<Offer(c, IGNORED)>>, <<>>)

-----------------------------------------------------------------------------
(* Button *)

NewButton(id, rect, hasCallback) ==
    [kind |-> "Button", id |-> id, rect |-> rect, hovered |-> FALSE,
     shown |-> TRUE, callback |-> hasCallback]

ButtonHandleEvent(c, ev) ==
    IF ~c.shown \/ ~c.callback THEN Res(IGNORED, c, <<Offer(c, IGNORED)>>, <<>>)
    ELSE IF hoverFlips(c, ev)
    THEN Res(HANDLED, [c EXCEPT !.hovered = ~c.hovered], <<Offer(c, HANDLED)>>, <<>>)
    ELSE IF thisWasClicked(c, ev) # 0
    THEN Res(HANDLED, c, <<Offer(c, HANDLED)>>, <<[id |-> c.id, arg |-> 0]>>)
    ELSE Res(IGNORED, c, <<Offer(c, IGNORED)>>, <<>>)

-----------------------------------------------------------------------------
(* Slider.  Field val holds Slider::val multiplied by valPxCount().        *)

\* Slider::makeSliderRect
makeSliderRect(rect, vertical, w) ==
    IF vertical
    THEN Rect(rect.x - (w \div 2), rect.y, rect.w + w, w)
    ELSE Rect(rect.x, rect.y - (w \div 2), w, rect.h + w)

\* Slider::valPxCount
valPxCount(c) ==
    IF c.vertical THEN c.rect.h - c.sliderRect.h ELSE c.rect.w - c.sliderRect.w

\* Slider::Slider: val(float(min)), dragging = false, lastVal{}, no callback
NewSlider(id, rect, min, max, step, vertical, slidRectWidth) ==
    [kind |-> "Slider", id |-> id, rect |-> rect, hovered |-> FALSE,
     shown |-> TRUE, dragging |-> FALSE, vertical |-> vertical,
     min |-> min, max |-> max, step |-> step, lastVal |-> 0,
     val |-> min * (IF vertical THEN rect.h - slidRectWidth
                    ELSE rect.w - slidRectWidth),
     sliderRect |-> makeSliderRect(rect, vertical, slidRectWidth),
     mousePos |-> Point(0, 0), onValChange |-> FALSE]

\* Slider::stepn: round((val - min) / step)
stepn(c) == RoundDiv(c.val - c.min * valPxCount(c), valPxCount(c) * c.step)

\* Slider::trueVal: stepn() * step + min
trueVal(c) == stepn(c) * c.step + c.min

\* Slider::capVal
capVal(c) ==
    IF c.val > c.max * valPxCount(c) THEN [c EXCEPT !.val = c.max * valPxCount(c)]
    ELSE IF c.val < c.min * valPxCount(c) THEN [c EXCEPT !.val = c.min * valPxCount(c)]
    ELSE c

\* round(stepn() * pps()), pps() = valPxCount() / (max - min) * step
handleOffset(c) == RoundDiv(stepn(c) * valPxCount(c) * c.step, c.max - c.min)

\* the last statement of Slider::dragDiff: the handle is put at the step
placeHandle(c) ==
    IF c.vertical
    THEN [c EXCEPT !.sliderRect.y = c.rect.y + handleOffset(c)]
    ELSE [c EXCEPT !.sliderRect.x = c.rect.x + handleOffset(c)]

\* Slider::dragDiff: val += d * upp(), upp() = (max - min) / valPxCount()
dragDiff(c, dp) ==
    placeHandle(capVal([c EXCEPT !.val =
        c.val + (IF c.vertical THEN dp.y ELSE dp.x) * (c.max - c.min)]))

\* Slider::checkCallback with the update of lastVal left out
checkCallbackNoLatch(c) ==
    IF ~c.onValChange THEN [comp |-> c, calls |-> <<>>]
    ELSE IF trueVal(c) # c.lastVal
    THEN [comp |-> c, calls |-> <<[id |-> c.id, arg |-> trueVal(c)]>>]
    ELSE [comp |-> c, calls |-> <<>>]

\* Slider::checkCallback
checkCallback(c) ==
    IF ~c.onValChange THEN [comp |-> c, calls |-> <<>>]
    ELSE IF trueVal(c) # c.lastVal
    THEN [comp |-> [c EXCEPT !.lastVal = trueVal(c)],
          calls |-> <<[id |-> c.id, arg |-> trueVal(c)]>>]
    ELSE [comp |-> c, calls |-> <<>>]

\* Slider::setVal
setVal(c, newVal) == dragDiff([c EXCEPT !.val = newVal * valPxCount(c)], Point(0, 0))

\* Slider::setStepNo
setStepNo(c, newStep) ==
    dragDiff([c EXCEPT !.val = (c.min + newStep * c.step) * valPxCount(c)], Point(0, 0))

\* Slider::setCallback: cb(trueVal()); onValChange = cb
setCallback(c) ==
    [comp |-> [c EXCEPT !.onValChange = TRUE],
     calls |-> <<[id |-> c.id, arg |-> trueVal(c)]>>]

\* the dragging branch of Slider::handleEvent, cb the result of checkCallback
sliderDragged(c, p, cb) ==
    Res(HANDLED, [cb.comp EXCEPT !.mousePos = p], <<Offer(c, HANDLED)>>, cb.calls)

\* the release case with dragging left as it is
sliderReleaseKeepsTracking(c) == Res(FORWARDED, c, <<Offer(c, FORWARDED)>>, <<>>)

\* the release case reported as HANDLED
sliderReleaseHandled(c) ==
    Res(HANDLED, [c EXCEPT !.dragging = FALSE], <<Offer(c, HANDLED)>>, <<>>)

\* the case SDL_MOUSEBUTTONUP of Slider::handleEvent
sliderRelease(c) ==
    Res(FORWARDED, [c EXCEPT !.dragging = FALSE], <<Offer(c, FORWARDED)>>, <<>>)

\* Slider::handleEvent
SliderHandleEvent(c, ev) ==
    IF ~c.shown THEN Res(IGNORED, c, <<Offer(c, IGNORED)>>, <<>>)
    ELSE IF ev.type = "MOUSEMOTION" THEN
        IF c.hovered # PointInRect(Point(ev.x, ev.y), c.sliderRect)
        THEN Res(HANDLED, [c EXCEPT !.hovered = ~c.hovered], <<Offer(c, HANDLED)>>, <<>>)
        ELSE IF c.dragging
        THEN sliderDragged(c, Point(ev.x, ev.y),
                 checkCallback(dragDiff(c, Point(ev.x - c.mousePos.x,
                                                 ev.y - c.mousePos.y))))
        ELSE Res(IGNORED, c, <<Offer(c, IGNORED)>>, <<>>)
    ELSE IF ev.type = "MOUSEBUTTONDOWN" THEN
        IF PointInRect(Point(ev.x, ev.y), c.sliderRect)
        THEN Res(HANDLED, [c EXCEPT !.mousePos = Point(ev.x, ev.y), !.dragging = TRUE],
                 <<Offer(c, HANDLED)>>, <<>>)
        ELSE Res(IGNORED, c, <<Offer(c, IGNORED)>>, <<>>)
    ELSE IF ev.type = "MOUSEBUTTONUP" THEN sliderRelease(c)
    ELSE Res(IGNORED, c, <<Offer(c, IGNORED)>>, <<>>)

-----------------------------------------------------------------------------
(* Virtual dispatch *)

RECURSIVE HandleEvent(_, _)
RECURSIVE Translate(_, _, _)
RECURSIVE setWindow(_)

\* Component::setPos
setPos(c, x, y) == Translate(c, x - c.rect.x, y - c.rect.y)

RECURSIVE translateAll(_, _, _)
translateAll(comps, dx, dy) ==
    IF comps = <<>> THEN <<>>
    ELSE <<Translate(Head(comps), dx, dy)>> \o translateAll(Tail(comps), dx, dy)

-----------------------------------------------------------------------------
(* Panel *)

NewPanel(id, rect, comps) ==
    [kind |-> "Panel", id |-> id, rect |-> rect, hovered |-> FALSE,
     shown |-> TRUE, comps |-> comps]

\* what a loop over components has done so far, extended by the result r of
\* one more handleEvent call; seen records a status that is remembered
LoopStart(comps) == [comps |-> comps, log |-> <<>>, calls |-> <<>>, seen |-> FALSE]
LoopAdd(acc, i, r, remember) ==
    [comps |-> [acc.comps EXCEPT ![i] = r.comp],
     log |-> acc.log \o r.log,
     calls |-> acc.calls \o r.calls,
     seen |-> acc.seen \/ remember]
LoopRes(status, acc) == Res(status, acc.comps, acc.log, acc.calls)

\* A loop that offers the event to every component, also after a HANDLED
RECURSIVE multihandleNoStop(_, _, _)
RECURSIVE multihandleNoStopStep(_, _, _, _)
multihandleNoStop(event, i, acc) ==
    IF i > Len(acc.comps) THEN LoopRes(IF acc.seen THEN HANDLED ELSE IGNORED, acc)
    ELSE multihandleNoStopStep(event, i, acc, HandleEvent(acc.comps[i], event))
multihandleNoStopStep(event, i, acc, r) ==
    multihandleNoStop(event, i + 1, LoopAdd(acc, i, r, Truthy(r.status)))

\* multihandleEvent: offer the event to each component in order; stop at the
\* first that returns HANDLED; remember a FORWARDED and report it as HANDLED.
RECURSIVE multihandleFrom(_, _, _)
RECURSIVE multihandleStep(_, _, _, _)
multihandleFrom(event, i, acc) ==
    IF i > Len(acc.comps) THEN LoopRes(IF acc.seen THEN HANDLED ELSE IGNORED, acc)
    ELSE multihandleStep(event, i, acc, HandleEvent(acc.comps[i], event))
multihandleStep(event, i, acc, r) ==
    IF r.status = HANDLED THEN LoopRes(HANDLED, LoopAdd(acc, i, r, FALSE))
    ELSE multihandleFrom(event, i + 1, LoopAdd(acc, i, r, r.status = FORWARDED))

multihandleEventNoStop(event, comps) == multihandleNoStop(event, 1, LoopStart(comps))

multihandleEvent(event, comps) == multihandleFrom(event, 1, LoopStart(comps))

\* the Panel after its children were offered the event, r the loop's result
panelResult(c, r) ==
    Res(r.status, [c EXCEPT !.comps = r.comp], <<Offer(c, r.status)>> \o r.log, r.calls)

\* Panel::handleEvent with a loop that goes on after a HANDLED
PanelHandleEventNoStop(c, ev) ==
    IF ~c.shown THEN Res(IGNORED, c, <<Offer(c, IGNORED)>>, <<>>)
    ELSE panelResult(c, multihandleEventNoStop(ev, c.comps))

\* Panel::handleEvent
PanelHandleEvent(c, ev) ==
    IF ~c.shown THEN Res(IGNORED, c, <<Offer(c, IGNORED)>>, <<>>)
    ELSE panelResult(c, multihandleEvent(ev, c.comps))

\* Panel::translate
PanelTranslate(c, dx, dy) ==
    [c EXCEPT !.rect = translateRect(c.rect, dx, dy),
              !.comps = translateAll(c.comps, dx, dy)]

\* Panel::addComponent (colours are not modelled)
PanelAddComponent(c, comp) == [c EXCEPT !.comps = Append(c.comps, setWindow(comp))]

-----------------------------------------------------------------------------
(* ScrollPanel.  index and numShown are ints compared with size_t values;  *)
(* the model keeps both non-negative, where the conversions change nothing *)

NewScrollPanel(id, rect, numShown) ==
    [kind |-> "ScrollPanel", id |-> id, rect |-> rect, hovered |-> FALSE,
     shown |-> TRUE, comps |-> <<>>, index |-> 0, numShown |-> numShown,
     scrollBegin |-> Point(rect.x, rect.y)]

\* the loop of ScrollPanel::scrollContent over a window of shown rows;
\* position i of the model is position i - 1 of the code
RECURSIVE scrollFrom(_, _, _, _)
scrollFrom(c, shown, i, yoff) ==
    IF i > Len(c.comps) THEN <<>>
    ELSE IF i - 1 >= c.index /\ i - 1 < c.index + shown
    THEN <<setPos([c.comps[i] EXCEPT !.shown = TRUE],
                  c.scrollBegin.x, c.scrollBegin.y + yoff)>>
         \o scrollFrom(c, shown, i + 1, yoff + c.comps[i].rect.h)
    ELSE <<[c.comps[i] EXCEPT !.shown = FALSE]>> \o scrollFrom(c, shown, i + 1, yoff)

\* scrollContent with a window one row too long
scrollContentOffByOne(c) == [c EXCEPT !.comps = scrollFrom(c, c.numShown + 1, 1, 0)]

\* ScrollPanel::scrollContent
scrollContent(c) == [c EXCEPT !.comps = scrollFrom(c, c.numShown, 1, 0)]

\* the wheel step without the test of the upper end
wheelStepNoUpperGuard(c, offset) ==
    IF c.index + offset >= 0
    THEN scrollContent([c EXCEPT !.index = c.index + offset])
    ELSE c

\* the wheel step of ScrollPanel::handleEvent
wheelStep(c, offset) ==
    IF c.index + offset >= 0 /\ c.index + offset + c.numShown <= Len(c.comps)
    THEN scrollContent([c EXCEPT !.index = c.index + offset])
    ELSE c

\* ScrollPanel::handleEvent after Panel::handleEvent returned r; the entry of
\* the base-class call is taken out of the log
scrollPanelAfter(c, ev, r) ==
    IF Truthy(r.status)
    THEN Res(HANDLED, r.comp, <<Offer(c, HANDLED)>> \o Tail(r.log), r.calls)
    ELSE IF ev.type # "MOUSEWHEEL"
    THEN Res(IGNORED, r.comp, <<Offer(c, IGNORED)>> \o Tail(r.log), r.calls)
    ELSE Res(HANDLED, wheelStep(r.comp, sgn(ev.wheel)),
             <<Offer(c, HANDLED)>> \o Tail(r.log), r.calls)

\* ScrollPanel::handleEvent
ScrollPanelHandleEvent(c, ev) ==
    IF ~c.shown THEN Res(IGNORED, c, <<Offer(c, IGNORED)>>, <<>>)
    ELSE scrollPanelAfter(c, ev, PanelHandleEvent(c, ev))

\* ScrollPanel::translate
ScrollPanelTranslate(c, dx, dy) ==
    [c EXCEPT !.rect = translateRect(c.rect, dx, dy),
              !.comps = translateAll(c.comps, dx, dy),
              !.scrollBegin = Point(c.scrollBegin.x + dx, c.scrollBegin.y + dy)]

\* ScrollPanel::addComponent
ScrollPanelAddComponent(c, comp) == scrollContent(PanelAddComponent(c, comp))

-----------------------------------------------------------------------------
(* TextInput.  text is a sequence of one-character strings.                *)

\* Conversion of an int to std::size_t: a negative int becomes a value above
\* every length.  The width is cut to what 32-bit model integers can hold.
SizeMax == 2147483647
SizeT(i) == IF i < 0 THEN SizeMax + i ELSE i

NewTextInput(id, rect, initVal, autoHide, onConfirm) ==
    [kind |-> "TextInput", id |-> id, rect |-> rect, hovered |-> FALSE,
     shown |-> ~autoHide, text |-> initVal, caretPos |-> 0, active |-> FALSE,
     autoHide |-> autoHide, onConfirm |-> onConfirm]

\* TextInput::insertChar(char chr, std::size_t index)
insertChar(c, chr, index) ==
    IF index > Len(c.text) THEN c
    ELSE [c EXCEPT !.text = SubSeq(c.text, 1, index) \o <<chr>>
                            \o SubSeq(c.text, index + 1, Len(c.text))]

\* deleteChar that takes an index past the end for the last character
deleteCharClamped(c, index) ==
    IF c.text = <<>> THEN c
    ELSE IF index >= Len(c.text)
    THEN [c EXCEPT !.text = SubSeq(c.text, 1, Len(c.text) - 1)]
    ELSE [c EXCEPT !.text = SubSeq(c.text, 1, index)
                            \o SubSeq(c.text, index + 2, Len(c.text))]

\* TextInput::deleteChar(std::size_t index)
deleteChar(c, index) ==
    IF index >= Len(c.text) THEN c
    ELSE [c EXCEPT !.text = SubSeq(c.text, 1, index)
                            \o SubSeq(c.text, index + 2, Len(c.text))]

\* TextInput::clear
clear(c) == [c EXCEPT !.text = <<>>, !.caretPos = 0]

\* TextInput::activate
activate(c) == [c EXCEPT !.active = TRUE, !.shown = IF c.autoHide THEN TRUE ELSE @]

\* deactivate that leaves the confirm callback out
deactivateSilent(c) ==
    [comp |-> [c EXCEPT !.active = FALSE, !.shown = IF c.autoHide THEN FALSE ELSE @],
     calls |-> <<>>]

\* TextInput::deactivate; the confirm callback is reported in calls
deactivate(c) ==
    [comp |-> [c EXCEPT !.active = FALSE, !.shown = IF c.autoHide THEN FALSE ELSE @],
     calls |-> IF c.onConfirm THEN <<[id |-> c.id, arg |-> c.text]>> ELSE <<>>]

EnterKeys == {"KP_ENTER", "RETURN", "RETURN2"}
EditKeys == {"LEFT", "RIGHT", "HOME", "END", "DELETE", "BACKSPACE"}

\* the clamp that ends TextInput::handleKey
clampCaret(c) ==
    IF c.caretPos < 0 THEN [c EXCEPT !.caretPos = 0]
    ELSE IF c.caretPos > Len(c.text) THEN [c EXCEPT !.caretPos = Len(c.text)]
    ELSE c

\* the switch of TextInput::handleKey for the keys it knows
keySwitch(c, kp) ==
    CASE kp = "LEFT" -> [comp |-> [c EXCEPT !.caretPos = c.caretPos - 1], calls |-> <<>>]
      [] kp = "RIGHT" -> [comp |-> [c EXCEPT !.caretPos = c.caretPos + 1], calls |-> <<>>]
      [] kp = "HOME" -> [comp |-> [c EXCEPT !.caretPos = 0], calls |-> <<>>]
      [] kp = "END" -> [comp |-> [c EXCEPT !.caretPos = Len(c.text)], calls |-> <<>>]
      [] kp = "DELETE" -> [comp |-> deleteChar(c, SizeT(c.caretPos)), calls |-> <<>>]
      [] kp = "BACKSPACE" ->
           [comp |-> deleteChar([c EXCEPT !.caretPos = c.caretPos - 1],
                                SizeT(c.caretPos - 1)),
            calls |-> <<>>]
      [] OTHER -> deactivate(c)

keyDone(r) == [ret |-> TRUE, comp |-> clampCaret(r.comp), calls |-> r.calls]

\* TextInput::handleKey
handleKey(c, kp) ==
    IF kp \notin EditKeys \cup EnterKeys
    THEN [ret |-> FALSE, comp |-> c, calls |-> <<>>]
    ELSE keyDone(keySwitch(c, kp))

\* return handleKey(...) ? HANDLED : IGNORED
keyResult(c, k) ==
    Res(IF k.ret THEN HANDLED ELSE IGNORED, k.comp,
        <<Offer(c, IF k.ret THEN HANDLED ELSE IGNORED)>>, k.calls)

\* the press outside an active TextInput: deactivate(); return IGNORED
outsideResult(c, d) == Res(IGNORED, d.comp, <<Offer(c, IGNORED)>>, d.calls)

\* TextInput::handleEvent
TextInputHandleEvent(c, ev) ==
    IF ~c.shown THEN Res(IGNORED, c, <<Offer(c, IGNORED)>>, <<>>)
    ELSE IF ~c.active /\ thisWasClicked(c, ev) # 0
    THEN Res(HANDLED, activate(c), <<Offer(c, HANDLED)>>, <<>>)
    ELSE IF c.active /\ clickOutside(c, ev) # 0
    THEN outsideResult(c, deactivate(c))
    ELSE IF c.active /\ ev.type = "TEXTINPUT"
    THEN Res(HANDLED,
             [insertChar(c, ev.ch, SizeT(c.caretPos)) EXCEPT !.caretPos = c.caretPos + 1],
             <<Offer(c, HANDLED)>>, <<>>)
    ELSE IF c.active /\ ev.type = "KEYDOWN"
    THEN keyResult(c, handleKey(c, ev.sym))
    ELSE Res(IGNORED, c, <<Offer(c, IGNORED)>>, <<>>)

-----------------------------------------------------------------------------
(* Expandable *)

\* setExpanded that leaves the popup as it is
setExpandedFlagOnly(c, val) == [c EXCEPT !.expanded = val]

\* Expandable::setExpanded
setExpanded(c, val) == [c EXCEPT !.expanded = val, !.panel.shown = val]

\* Expandable::toggleExpanded
toggleExpanded(c) == setExpanded(c, ~c.expanded)

\* Expandable::handleEvent without the test of a press outside the popup
expandableAfterPanelNoClose(c, ev, r) ==
    IF Truthy(r.status) THEN Res(HANDLED, [c EXCEPT !.panel = r.comp], r.log, r.calls)
    ELSE IF thisWasClicked(c, ev) = 1
    THEN Res(FORWARDED, [c EXCEPT !.panel = r.comp, !.expanded = ~c.expanded,
                                  !.panel.shown = ~c.expanded], r.log, r.calls)
    ELSE Res(IGNORED, [c EXCEPT !.panel = r.comp], r.log, r.calls)

\* Expandable::handleEvent after the popup returned r
expandableAfterPanel(c, ev, r) ==
    IF Truthy(r.status) THEN Res(HANDLED, [c EXCEPT !.panel = r.comp], r.log, r.calls)
    ELSE IF thisWasClicked(c, ev) = 1
    THEN Res(FORWARDED, toggleExpanded([c EXCEPT !.panel = r.comp]), r.log, r.calls)
    ELSE IF /\ ev.type = "MOUSEBUTTONDOWN"
            /\ c.expanded
            /\ ~posInside(r.comp, Point(ev.x, ev.y))
    THEN Res(FORWARDED, setExpanded([c EXCEPT !.panel = r.comp], FALSE), r.log, r.calls)
    ELSE Res(IGNORED, [c EXCEPT !.panel = r.comp], r.log, r.calls)

\* Expandable::handleEvent; the caller adds its own entry to the log
ExpandableDispatch(c, ev) ==
    IF ~c.shown THEN Res(IGNORED, c, <<>>, <<>>)
    ELSE IF hoverFlips(c, ev)
    THEN Res(HANDLED, [c EXCEPT !.hovered = ~c.hovered], <<>>, <<>>)
    ELSE expandableAfterPanel(c, ev, HandleEvent(c.panel, ev))

\* Expandable::translate
ExpandableTranslate(c, dx, dy) ==
    [c EXCEPT !.rect = translateRect(c.rect, dx, dy),
              !.panel = Translate(c.panel, dx, dy)]

-----------------------------------------------------------------------------
(* Expandable on its own, and ComboBox with its rows                       *)

\* Expandable::Expandable with ExpandDir::DOWN: the popup is hidden and put
\* under the trigger (setExpandDir, adjustPanel)
NewExpandable(id, rect, panel) ==
    [kind |-> "Expandable", id |-> id, rect |-> rect, hovered |-> FALSE,
     shown |-> TRUE, expanded |-> FALSE, expOffset |-> Point(0, rect.h),
     panel |-> setPos([panel EXCEPT !.shown = FALSE], rect.x, rect.y + rect.h)]

\* the call of Expandable::handleEvent as the log records it
expandableLogged(c, r) ==
    Res(r.status, r.comp, <<Offer(c, r.status)>> \o r.log, r.calls)

\* Expandable::handleEvent
ExpandableHandleEvent(c, ev) == expandableLogged(c, ExpandableDispatch(c, ev))

\* ComboBox::Elem::Elem
NewElem(rect, index, text) ==
    [kind |-> "Elem", id |-> text, rect |-> rect, hovered |-> FALSE,
     shown |-> TRUE, ind |-> index, text |-> text]

\* ComboBox::Elem::handleEvent; the calls on the ComboBox are reported
ElemHandleEvent(c, ev) ==
    IF ~c.shown THEN Res(IGNORED, c, <<Offer(c, IGNORED)>>, <<>>)
    ELSE IF hoverFlips(c, ev)
    THEN Res(HANDLED, [c EXCEPT !.hovered = ~c.hovered], <<Offer(c, HANDLED)>>, <<>>)
    ELSE IF thisWasClicked(c, ev) # 0
    THEN Res(HANDLED, c, <<Offer(c, HANDLED)>>,
             <<[id |-> "setSelection", arg |-> c.ind]>>)
    ELSE Res(IGNORED, c, <<Offer(c, IGNORED)>>, <<>>)

\* ComboBox::finalizePanel: one row per option, each made with the rect of
\* the ComboBox and placed by ScrollPanel::addComponent
RECURSIVE addElems(_, _, _)
addElems(panel, rect, options) ==
    IF options = <<>> THEN panel
    ELSE ScrollPanelAddComponent(
             addElems(panel, rect, SubSeq(options, 1, Len(options) - 1)),
             NewElem(rect, Len(options) - 1, options[Len(options)]))

\* ComboBox::ComboBox: the popup of makePanel, hidden and placed by
\* Expandable::Expandable.  makePanel is called for the argument of the
\* base-class constructor, before Component's constructor has set rect: the
\* w() and h() it reads, here w and h, are indeterminate
comboBoxMade(id, rect, options, numShown, w, h) ==
    [kind |-> "ComboBox", id |-> id, rect |-> rect, hovered |-> FALSE,
     shown |-> TRUE, expanded |-> FALSE, expOffset |-> Point(0, rect.h),
     index |-> 0, options |-> options, text |-> options[1],
     panel |-> setPos([NewScrollPanel("popup", Rect(0, 0, w, h * numShown), numShown)
                          EXCEPT !.shown = FALSE],
                      rect.x, rect.y + rect.h)]

\* ComboBox::finalizePanel
finalizePanel(c) == [c EXCEPT !.panel = addElems(@, c.rect, c.options)]

\* a ComboBox attached to a Window: ComboBox::ComboBox, then setWindow, which
\* fills the popup (finalizePanel)
NewComboBox(id, rect, options, numShown, w, h) ==
    finalizePanel(comboBoxMade(id, rect, options, numShown, w, h))

\* setSelection that leaves the displayed text as it is
setSelectionIndexOnly(c, ind) == [c EXCEPT !.index = ind]

\* ComboBox::setSelection
setSelection(c, ind) == [c EXCEPT !.index = ind, !.text = c.options[ind + 1]]

\* what the clicked row did to its ComboBox: setSelection(ind) and
\* setExpanded(false)
comboAfter(c, r) ==
    IF r.calls # <<>> /\ r.calls[1].id = "setSelection"
    THEN Res(r.status, setExpanded(setSelection(r.comp, r.calls[1].arg), FALSE),
             <<Offer(c, r.status)>> \o r.log, r.calls)
    ELSE Res(r.status, r.comp, <<Offer(c, r.status)>> \o r.log, r.calls)

\* ComboBox inherits Expandable::handleEvent
ComboBoxHandleEvent(c, ev) == comboAfter(c, ExpandableDispatch(c, ev))

-----------------------------------------------------------------------------
(* Dropdown and its decorated rows (Dropdown::MiniPanel).  Field parts of  *)
(* a row holds mainPart followed by those of up, down, del that exist, in  *)
(* the order in which handleEvent offers them the event.  The elems of a   *)
(* Dropdown are the components of its popup.                               *)

\* Dropdown::buttonSize and Dropdown::buttonSpace
buttonSize == 2
buttonSpace == 1

\* the delete control of MiniPanel::MiniPanel
delButton(mainPart) ==
    NewButton("X", Rect(mainPart.rect.x + mainPart.rect.w + 2 * buttonSize + 3 * buttonSpace,
                        mainPart.rect.y + (mainPart.rect.h - buttonSize) \div 2,
                        buttonSize, buttonSize), TRUE)

\* the up and down controls of MiniPanel::MiniPanel
swapButtons(mainPart) ==
    << NewButton("U", Rect(mainPart.rect.x + mainPart.rect.w + buttonSpace,
                           mainPart.rect.y + (mainPart.rect.h - buttonSize) \div 2,
                           buttonSize, buttonSize), TRUE),
       NewButton("D", Rect(mainPart.rect.x + mainPart.rect.w + buttonSpace
                               + (buttonSize + buttonSpace),
                           mainPart.rect.y + (mainPart.rect.h - buttonSize) \div 2,
                           buttonSize, buttonSize), TRUE) >>

\* Dropdown::MiniPanel::MiniPanel
NewMiniPanel(comp, allowDel, allowSwap) ==
    [kind |-> "MiniPanel", id |-> "row", rect |-> Rect(0, 0, 0, 0),
     hovered |-> FALSE, shown |-> TRUE, index |-> 0,
     parts |-> <<comp>> \o (IF allowSwap THEN swapButtons(comp) ELSE <<>>)
                        \o (IF allowDel THEN <<delButton(comp)>> ELSE <<>>)]

\* the || chain of MiniPanel::handleEvent: the parts are offered the event
\* in order up to the first that returns a status other than IGNORED
RECURSIVE miniFrom(_, _, _)
RECURSIVE miniStep(_, _, _, _)
miniFrom(event, i, acc) ==
    IF i > Len(acc.comps) THEN LoopRes(IGNORED, acc)
    ELSE miniStep(event, i, acc, HandleEvent(acc.comps[i], event))
miniStep(event, i, acc, r) ==
    IF Truthy(r.status) THEN LoopRes(HANDLED, LoopAdd(acc, i, r, FALSE))
    ELSE miniFrom(event, i + 1, LoopAdd(acc, i, r, FALSE))

\* the callbacks of the controls of row c, as calls on its Dropdown
rowCall(c, call) ==
    IF call.id = "X" THEN [id |-> "removeAt", arg |-> c.index, other |-> 0]
    ELSE IF call.id = "U" THEN [id |-> "swapElems", arg |-> c.index, other |-> c.index - 1]
    ELSE IF call.id = "D" THEN [id |-> "swapElems", arg |-> c.index, other |-> c.index + 1]
    ELSE call

\* the row after its parts were offered the event, r the chain's result
miniResult(c, r) ==
    Res(r.status, [c EXCEPT !.parts = r.comp], <<Offer(c, r.status)>> \o r.log,
        [k \in DOMAIN r.calls |-> rowCall(c, r.calls[k])])

\* MiniPanel::handleEvent without the test of shown
MiniPanelHandleEventNoShownTest(c, ev) == miniResult(c, miniFrom(ev, 1, LoopStart(c.parts)))

\* Dropdown::MiniPanel::handleEvent
MiniPanelHandleEvent(c, ev) ==
    IF ~c.shown THEN Res(IGNORED, c, <<Offer(c, IGNORED)>>, <<>>)
    ELSE miniResult(c, miniFrom(ev, 1, LoopStart(c.parts)))

\* Dropdown::MiniPanel::translate
MiniPanelTranslate(c, dx, dy) ==
    [c EXCEPT !.rect = translateRect(c.rect, dx, dy),
              !.parts = translateAll(c.parts, dx, dy)]

\* Dropdown::Dropdown with Flags::ADD and ExpandDir::DOWN: the popup of
\* makePanel, hidden and placed by Expandable::Expandable, and the add control
dropdownWithPanel(id, rect, elemRect, allowDel, allowSwap, panel) ==
    [kind |-> "Dropdown", id |-> id, rect |-> rect, hovered |-> FALSE,
     shown |-> TRUE, expanded |-> FALSE, expOffset |-> Point(0, rect.h),
     elemRect |-> elemRect, allowDel |-> allowDel, allowSwap |-> allowSwap,
     panel |-> panel,
     addButton |-> NewButton("+",
         Rect(panel.rect.x + buttonSpace,
              panel.rect.y + panel.rect.h - (elemRect.h + buttonSize) \div 2,
              buttonSize, buttonSize), FALSE)]

\* Dropdown::makePanel
makePanel(elemRect, numShown) ==
    NewScrollPanel("popup", Rect(0, 0, elemRect.w + 4 * buttonSpace + 3 * buttonSize,
                                 elemRect.h * (numShown + 1)), numShown)

NewDropdown(id, rect, elemRect, numShown, allowDel, allowSwap) ==
    dropdownWithPanel(id, rect, elemRect, allowDel, allowSwap,
        setPos([makePanel(elemRect, numShown) EXCEPT !.shown = FALSE],
               rect.x, rect.y + rect.h))

\* Dropdown::addComponent
DropdownAddComponent(c, comp) ==
    [c EXCEPT !.panel = ScrollPanelAddComponent(@,
        [setWindow(NewMiniPanel(comp, c.allowDel, c.allowSwap)) EXCEPT
            !.index = Len(c.panel.comps),
            !.rect.w = c.elemRect.w + 4 * buttonSpace + 3 * buttonSize,
            !.rect.h = c.elemRect.h])]

\* Dropdown::reindex
reindex(elems, from) ==
    [k \in DOMAIN elems |->
        IF k - 1 >= from THEN [elems[k] EXCEPT !.index = k - 1] ELSE elems[k]]

\* std::vector::erase of the element at position index
erase(elems, index) ==
    SubSeq(elems, 1, index) \o SubSeq(elems, index + 2, Len(elems))

\* removeAt without the reindex
removeAtNoReindex(c, index) ==
    IF index >= 0 /\ index < Len(c.panel.comps)
    THEN [c EXCEPT !.panel.comps = erase(@, index)]
    ELSE c

\* Dropdown::removeAt
removeAt(c, index) ==
    IF index >= 0 /\ index < Len(c.panel.comps)
    THEN [c EXCEPT !.panel.comps = reindex(erase(@, index), index)]
    ELSE c

\* swapElems that exchanges the remembered indices and leaves the rows
swapElemsIndexOnly(c, ind1, ind2) ==
    IF ind1 < 0 \/ ind2 < 0 \/ ind1 >= Len(c.panel.comps) \/ ind2 >= Len(c.panel.comps)
    THEN c
    ELSE [c EXCEPT !.panel.comps[ind1 + 1].index = c.panel.comps[ind2 + 1].index,
                   !.panel.comps[ind2 + 1].index = c.panel.comps[ind1 + 1].index]

\* Dropdown::swapElems: the two rows change places, then their indices do
swapElems(c, ind1, ind2) ==
    IF ind1 < 0 \/ ind2 < 0 \/ ind1 >= Len(c.panel.comps) \/ ind2 >= Len(c.panel.comps)
    THEN c
    ELSE [c EXCEPT !.panel.comps =
            [@ EXCEPT ![ind1 + 1] = [c.panel.comps[ind2 + 1] EXCEPT
                                        !.index = c.panel.comps[ind1 + 1].index],
                      ![ind2 + 1] = [c.panel.comps[ind1 + 1] EXCEPT
                                        !.index = c.panel.comps[ind2 + 1].index]]]

\* the factory handed to setFactory: row n is a Text named by n
fact(c, n) == NewText(ToString(n), Rect(0, 0, c.elemRect.w, c.elemRect.h))

\* Dropdown::setFactory
setFactory(c) == [c EXCEPT !.addButton.callback = TRUE]

\* the callback that setFactory gives the add control
addClicked(c, calls) ==
    IF calls = <<>> THEN c ELSE DropdownAddComponent(c, fact(c, Len(c.panel.comps)))

\* what the control of a row did to the Dropdown
rowClicked(c, calls) ==
    IF calls = <<>> THEN c
    ELSE IF calls[1].id = "removeAt" THEN removeAt(c, calls[1].arg)
    ELSE IF calls[1].id = "swapElems" THEN swapElems(c, calls[1].arg, calls[1].other)
    ELSE c

\* Dropdown::handleEvent after Expandable::handleEvent returned r
dropdownAfterBase(c, r, log) ==
    IF Truthy(r.status)
    THEN Res(r.status,
             [rowClicked(r.comp, r.calls) EXCEPT !.panel = scrollContent(@)],
             <<Offer(c, r.status)>> \o log \o r.log, r.calls)
    ELSE Res(IGNORED, r.comp, <<Offer(c, IGNORED)>> \o log \o r.log, r.calls)

\* Dropdown::handleEvent after the add control returned rb
dropdownAfterAdd(c, ev, rb) ==
    IF Truthy(rb.status)
    THEN Res(rb.status, addClicked([c EXCEPT !.addButton = rb.comp], rb.calls),
             <<Offer(c, rb.status)>> \o rb.log, rb.calls)
    ELSE dropdownAfterBase(c, ExpandableDispatch(c, ev), rb.log)

\* Dropdown::handleEvent
DropdownHandleEvent(c, ev) ==
    IF ~c.shown THEN Res(IGNORED, c, <<Offer(c, IGNORED)>>, <<>>)
    ELSE dropdownAfterAdd(c, ev, ButtonHandleEvent(c.addButton, ev))

\* the translate of a Dropdown: Expandable::translate and the add control
DropdownTranslate(c, dx, dy) ==
    [c EXCEPT !.rect = translateRect(c.rect, dx, dy),
              !.panel = Translate(c.panel, dx, dy),
              !.addButton = Translate(c.addButton, dx, dy)]

-----------------------------------------------------------------------------
(* Characters, std::stoi(s, nullptr, 16) and 32-bit arithmetic *)

HexChars == <<"0", "1", "2", "3", "4", "5", "6", "7", "8", "9",
              "A", "B", "C", "D", "E", "F">>
LowerHex == <<"a", "b", "c", "d", "e", "f">>

IsHexDigit(ch) ==
    \/ \E i \in 1..16 : HexChars[i] = ch
    \/ \E i \in 1..6 : LowerHex[i] = ch

DigitVal(ch) ==
    IF \E i \in 1..16 : HexChars[i] = ch
    THEN (CHOOSE i \in 1..16 : HexChars[i] = ch) - 1
    ELSE (CHOOSE i \in 1..6 : LowerHex[i] = ch) + 9

\* std::toupper on one character
ToUpper(ch) ==
    IF \E i \in 1..6 : LowerHex[i] = ch
    THEN HexChars[(CHOOSE i \in 1..6 : LowerHex[i] = ch) + 10]
    ELSE ch

\* isspace
IsSpace(ch) == ch \in {" ", "\t", "\n"}

RECURSIVE skipSpace(_)
skipSpace(s) == IF s # <<>> /\ IsSpace(Head(s)) THEN skipSpace(Tail(s)) ELSE s

\* the longest prefix of hex digits of s, folded into a number
RECURSIVE parseDigits(_, _, _)
parseDigits(s, acc, n) ==
    IF s # <<>> /\ IsHexDigit(Head(s))
    THEN parseDigits(Tail(s), acc * 16 + DigitVal(Head(s)), n + 1)
    ELSE [value |-> acc, count |-> n]

\* std::stoi(s, nullptr, 16): leading blanks, an optional sign, an optional
\* 0x prefix, then hex digits; invalid_argument (ok = FALSE) without a digit
stoi16(s) ==
    LET a == skipSpace(s)
        neg == a # <<>> /\ Head(a) = "-"
        b == IF a # <<>> /\ Head(a) \in {"+", "-"} THEN Tail(a) ELSE a
        d == IF /\ Len(b) >= 3 /\ b[1] = "0" /\ b[2] \in {"x", "X"}
                /\ IsHexDigit(b[3])
             THEN SubSeq(b, 3, Len(b)) ELSE b
        r == parseDigits(d, 0, 0)
    IN  [ok |-> r.count > 0, value |-> IF neg THEN -r.value ELSE r.value]

\* bitwise or of two naturals
RECURSIVE BitOr(_, _)
BitOr(a, b) ==
    IF a = 0 THEN b
    ELSE IF b = 0 THEN a
    ELSE (IF a % 2 = 1 \/ b % 2 = 1 THEN 1 ELSE 0) + 2 * BitOr(a \div 2, b \div 2)

\* A 32-bit value (int or Uint32) as its four bytes, lowest first: the
\* two's complement representation of the int v
Word(v) == [k \in 1..4 |-> (v \div <<1, 256, 65536, 16777216>>[k]) % 256]

\* w << (8 * n) on 32 bits
ShiftLeftBytes(w, n) == [k \in 1..4 |-> IF k - n >= 1 THEN w[k - n] ELSE 0]

\* a | b on 32 bits
WordOr(a, b) == [k \in 1..4 |-> BitOr(a[k], b[k])]

\* r << 16 | g << 8 | b
Compose(r, g, b) ==
    WordOr(WordOr(ShiftLeftBytes(Word(r), 2), ShiftLeftBytes(Word(g), 1)), Word(b))

\* conversion of an int to char (signed, 8 bits)
ToChar(v) == IF (v % 256) >= 128 THEN (v % 256) - 256 ELSE v % 256

\* ColorSelect::hex(char c): hx[(c >> 4) & 0xF] + hx[c & 0xF]
hex(c) == <<HexChars[((c \div 16) % 16) + 1], HexChars[(c % 16) + 1]>>

-----------------------------------------------------------------------------
(* ColorSelect.  colSlider holds the positions, in panel.comps, of the     *)
(* three Sliders the pointers colSlider[0..2] refer to.                    *)

\* ColorSelect::ColorSelect with ExpandDir::DOWN: the popup Panel of
\* makePanel, hidden and placed by setExpandDir, and the editor of makeInput
NewColorSelect(id, rect) ==
    [kind |-> "ColorSelect", id |-> id, rect |-> rect, hovered |-> FALSE,
     shown |-> TRUE, expanded |-> FALSE,
     expOffset |-> Point(0, rect.h),
     panel |-> [NewPanel("popup", Rect(rect.x, rect.y + rect.h, 350, 140), <<>>)
                   EXCEPT !.shown = FALSE],
     colSlider |-> <<0, 0, 0>>,
     input |-> NewTextInput("input", Rect(rect.x + rect.w, rect.y, rect.w, 30),
                            <<>>, TRUE, TRUE)]

SliderName(i) == <<"slider0", "slider1", "slider2">>[i + 1]

\* one turn of the loop of ColorSelect::finalize: a Slider 0..255, step 1,
\* is appended to the popup and colSlider[i] refers to it
addColSlider(c, i) ==
    [c EXCEPT
        !.panel = PanelAddComponent(c.panel,
            NewSlider(SliderName(i),
                      Rect(c.panel.rect.x + 70, c.panel.rect.y + 30 + 35 * i, 255, 13),
                      0, 255, 1, FALSE, 13)),
        !.colSlider[i + 1] = Len(c.panel.comps) + 1]

\* ColorSelect::finalize
finalize(c) == addColSlider(addColSlider(addColSlider(c, 0), 1), 2)

\* colSlider[i], i in 0..2
ColSlider(c, i) == c.panel.comps[c.colSlider[i + 1]]

\* ColorSelect::color
color(c) ==
    Compose(trueVal(ColSlider(c, 0)), trueVal(ColSlider(c, 1)),
            trueVal(ColSlider(c, 2)))

\* ColorSelect::str
str(c) ==
    hex(ToChar(trueVal(ColSlider(c, 0)))) \o hex(ToChar(trueVal(ColSlider(c, 1))))
        \o hex(ToChar(trueVal(ColSlider(c, 2))))

\* (color >> (16 - 8 * i)) & 0xFF
Channel(col, i) == col[3 - i]

\* the slots i of colSlider that refer to position k of the popup
SlotsOf(c, k) == {i \in 0..2 : c.colSlider[i + 1] = k}

\* setColor(Color) with the channels pushed in the opposite slider order
setColorNumSwapped(c, col) ==
    [c EXCEPT !.panel.comps =
        [k \in DOMAIN c.panel.comps |->
            IF SlotsOf(c, k) # {}
            THEN setVal(c.panel.comps[k], Channel(col, 2 - (CHOOSE i \in SlotsOf(c, k) : TRUE)))
            ELSE c.panel.comps[k]]]

\* ColorSelect::setColor(Color)
setColorNum(c, col) ==
    [c EXCEPT !.panel.comps =
        [k \in DOMAIN c.panel.comps |->
            IF SlotsOf(c, k) # {}
            THEN setVal(c.panel.comps[k], Channel(col, CHOOSE i \in SlotsOf(c, k) : TRUE))
            ELSE c.panel.comps[k]]]

\* the try block of setColor(const std::string &) with the three results of
\* std::stoi: invalid_argument from any of them returns false
setColorParsed(c, r, g, b) ==
    IF ~(r.ok /\ g.ok /\ b.ok) THEN [ret |-> FALSE, comp |-> c]
    ELSE [ret |-> TRUE, comp |-> setColorNum(c, Compose(r.value, g.value, b.value))]

\* ColorSelect::setColor(const std::string &)
setColorStr(c, hexStr) ==
    IF Len(hexStr) < 6 THEN [ret |-> FALSE, comp |-> c]
    ELSE setColorParsed(c, stoi16(SubSeq(hexStr, 1, 2)), stoi16(SubSeq(hexStr, 3, 4)),
                        stoi16(SubSeq(hexStr, 5, 6)))

\* the confirm callback of makeInput: csel->setColor(val)
applyConfirm(c, calls) ==
    IF calls = <<>> THEN c ELSE setColorStr(c, calls[1].arg).comp

\* the swatch was clicked while the editor is visible; d is the result of
\* input->deactivate()
swatchCloses(c, d) ==
    Res(HANDLED, toggleExpanded(applyConfirm([c EXCEPT !.input = d.comp], d.calls)),
        <<Offer(c, HANDLED)>>, d.calls)

\* the end of ColorSelect::handleEvent: re is what Expandable::handleEvent
\* returned, ri what the editor returned before it
colorSelectBase(c, ri, re) ==
    Res(re.status, re.comp, <<Offer(c, re.status)>> \o ri.log \o re.log,
        ri.calls \o re.calls)

\* ColorSelect::handleEvent after input->handleEvent returned ri
colorSelectAfterInput(c, ev, ri) ==
    IF Truthy(ri.status)
    THEN Res(HANDLED, applyConfirm([c EXCEPT !.input = ri.comp], ri.calls),
             <<Offer(c, HANDLED)>> \o ri.log, ri.calls)
    ELSE colorSelectBase(c, ri,
             ExpandableDispatch(applyConfirm([c EXCEPT !.input = ri.comp], ri.calls), ev))

\* ColorSelect::handleEvent that activates the editor without clearing it
ColorSelectHandleEventNoClear(c, ev) ==
    IF ~c.shown THEN Res(IGNORED, c, <<Offer(c, IGNORED)>>, <<>>)
    ELSE IF thisWasClicked(c, ev) # 0 /\ c.input.shown
    THEN swatchCloses(c, deactivate(c.input))
    ELSE IF thisWasClicked(c, ev) # 0 /\ c.expanded
    THEN Res(HANDLED, [c EXCEPT !.input = activate(c.input)],
             <<Offer(c, HANDLED)>>, <<>>)
    ELSE colorSelectAfterInput(c, ev, TextInputHandleEvent(c.input, ev))

\* ColorSelect::handleEvent
ColorSelectHandleEvent(c, ev) ==
    IF ~c.shown THEN Res(IGNORED, c, <<Offer(c, IGNORED)>>, <<>>)
    ELSE IF thisWasClicked(c, ev) # 0 /\ c.input.shown
    THEN swatchCloses(c, deactivate(c.input))
    ELSE IF thisWasClicked(c, ev) # 0 /\ c.expanded
    THEN Res(HANDLED, [c EXCEPT !.input = activate(clear(c.input))],
             <<Offer(c, HANDLED)>>, <<>>)
    ELSE colorSelectAfterInput(c, ev, TextInputHandleEvent(c.input, ev))

-----------------------------------------------------------------------------
(* The virtual calls *)

HandleEvent(c, ev) ==
    CASE c.kind = "Text" -> TextHandleEvent(c, ev)
      [] c.kind = "Button" -> ButtonHandleEvent(c, ev)
      [] c.kind = "Slider" -> SliderHandleEvent(c, ev)
      [] c.kind = "Panel" -> PanelHandleEvent(c, ev)
      [] c.kind = "ScrollPanel" -> ScrollPanelHandleEvent(c, ev)
      [] c.kind = "TextInput" -> TextInputHandleEvent(c, ev)
      [] c.kind = "ColorSelect" -> ColorSelectHandleEvent(c, ev)
      [] c.kind = "Expandable" -> ExpandableHandleEvent(c, ev)
      [] c.kind = "ComboBox" -> ComboBoxHandleEvent(c, ev)
      [] c.kind = "Elem" -> ElemHandleEvent(c, ev)
      [] c.kind = "MiniPanel" -> MiniPanelHandleEvent(c, ev)
      [] c.kind = "Dropdown" -> DropdownHandleEvent(c, ev)

\* translate: Panel, ScrollPanel, Expandable, MiniPanel and Dropdown override
\* Component::translate; ComboBox and ColorSelect inherit Expandable's, the
\* others (Slider among them) Component's, which moves rect alone
Translate(c, dx, dy) ==
    CASE c.kind = "Panel" -> PanelTranslate(c, dx, dy)
      [] c.kind = "ScrollPanel" -> ScrollPanelTranslate(c, dx, dy)
      [] c.kind \in {"ColorSelect", "Expandable", "ComboBox"} -> ExpandableTranslate(c, dx, dy)
      [] c.kind = "MiniPanel" -> MiniPanelTranslate(c, dx, dy)
      [] c.kind = "Dropdown" -> DropdownTranslate(c, dx, dy)
      [] OTHER -> [c EXCEPT !.rect = translateRect(c.rect, dx, dy)]

\* setWindow: Panel::setWindow (ScrollPanel inherits it), Expandable::setWindow
\* (Dropdown adds the add control), ComboBox::setWindow, ColorSelect::setWindow,
\* Dropdown::MiniPanel::setWindow; Component::setWindow keeps the Window alone
RECURSIVE setWindowAll(_)
setWindowAll(comps) ==
    IF comps = <<>> THEN <<>> ELSE <<setWindow(Head(comps))>> \o setWindowAll(Tail(comps))

setWindow(c) ==
    CASE c.kind \in {"Panel", "ScrollPanel"} -> [c EXCEPT !.comps = setWindowAll(@)]
      [] c.kind \in {"Expandable", "Dropdown"} -> [c EXCEPT !.panel = setWindow(@)]
      [] c.kind = "ComboBox" -> finalizePanel([c EXCEPT !.panel = setWindow(@)])
      [] c.kind = "ColorSelect" -> finalize([c EXCEPT !.panel = setWindow(@)])
      [] c.kind = "MiniPanel" -> [c EXCEPT !.parts = setWindowAll(@)]
      [] OTHER -> c

\* draw: the ids of the components that paint something, in painting
\* order.  Panel::draw (ScrollPanel inherits it), Expandable::draw (ComboBox
\* inherits it), ColorSelect::draw, Dropdown::MiniPanel::draw, Dropdown::draw,
\* and the draw of Text, Button, Elem, Slider and TextInput.
RECURSIVE Draw(_)
RECURSIVE drawAll(_)
drawAll(comps) ==
    IF comps = <<>> THEN <<>> ELSE Draw(Head(comps)) \o drawAll(Tail(comps))

Draw(c) ==
    IF ~c.shown THEN <<>>
    ELSE CASE c.kind \in {"Panel", "ScrollPanel"} -> <<c.id>> \o drawAll(c.comps)
           [] c.kind \in {"Expandable", "ComboBox"} -> <<c.id>> \o Draw(c.panel)
           [] c.kind = "ColorSelect" ->
                <<c.id>> \o (IF c.expanded THEN Draw(c.panel) ELSE <<>>) \o Draw(c.input)
           [] c.kind = "MiniPanel" -> drawAll(c.parts)
           [] c.kind = "Dropdown" ->
                <<c.id>> \o Draw(c.panel) \o (IF c.expanded THEN Draw(c.addButton) ELSE <<>>)
           [] OTHER -> <<c.id>>

\* Component::setVisibility
setVisibility(c, val) == [c EXCEPT !.shown = val]

-----------------------------------------------------------------------------
(* Window *)

\* Window::handleEvent without the case of the Escape key
WindowHandleEventQuitOnly(ev) == ev.type = "QUIT"

\* Window::handleEvent: TRUE iff the event is a quit signal or Escape released
WindowHandleEvent(ev) ==
    \/ ev.type = "QUIT"
    \/ ev.type = "KEYUP" /\ ev.sym = "ESCAPE"

\* the loop over the components that stops at any status but IGNORED
RECURSIVE dispatchStopAny(_, _, _)
RECURSIVE dispatchStopAnyStep(_, _, _, _)
dispatchStopAny(ev, i, acc) ==
    IF i > Len(acc.comps) THEN acc
    ELSE dispatchStopAnyStep(ev, i, acc, HandleEvent(acc.comps[i], ev))
dispatchStopAnyStep(ev, i, acc, r) ==
    IF Truthy(r.status) THEN LoopAdd(acc, i, r, TRUE)
    ELSE dispatchStopAny(ev, i + 1, LoopAdd(acc, i, r, FALSE))

\* the loop over the components in Window::events; seen is what the loop
\* makes of pendingUpdate
RECURSIVE dispatchFrom(_, _, _)
RECURSIVE dispatchStep(_, _, _, _)
dispatchFrom(ev, i, acc) ==
    IF i > Len(acc.comps) THEN acc
    ELSE dispatchStep(ev, i, acc, HandleEvent(acc.comps[i], ev))
dispatchStep(ev, i, acc, r) ==
    IF r.status = HANDLED THEN LoopAdd(acc, i, r, TRUE)
    ELSE dispatchFrom(ev, i + 1, LoopAdd(acc, i, r, Truthy(r.status)))

\* the loop over the components that leaves pendingUpdate as it was
dispatchKeepPending(ev, comps, pending) ==
    [dispatchFrom(ev, 1, [LoopStart(comps) EXCEPT !.seen = pending])
        EXCEPT !.seen = pending]

dispatchBreakOnAny(ev, comps, pending) ==
    dispatchStopAny(ev, 1, [LoopStart(comps) EXCEPT !.seen = pending])

dispatch(ev, comps, pending) ==
    dispatchFrom(ev, 1, [LoopStart(comps) EXCEPT !.seen = pending])

Obs(op, ev, arg, ret, log, calls) ==
    [op |-> op, ev |-> ev, arg |-> arg, ret |-> ret, log |-> log, calls |-> calls]

\* History of the first root component when it is a Slider: the quantized
\* value of the current run of consecutive motion events of one drag, and the
\* number of times its callback was invoked during the run.
\* told holds the value that the callback of the Slider was last given, as
\* a sequence of at most one element.
NoRun == [active |-> FALSE, val |-> 0, calls |-> 0, told |-> <<>>]

callsOf(c, calls) == Cardinality({k \in DOMAIN calls : calls[k].id = c.id})

\* what the callback of Slider c was last given, once calls were made
toldAfter(old, c, calls) ==
    IF c.kind = "Slider" /\ calls # <<>> /\ calls[Len(calls)].id = c.id
    THEN <<calls[Len(calls)].arg>>
    ELSE old

runAfter(old, before, after, ev, calls) ==
    IF before.kind = "Slider" /\ ev.type = "MOUSEMOTION" /\ before.dragging
    THEN IF old.active /\ old.val = trueVal(after)
         THEN [old EXCEPT !.calls = old.calls + callsOf(before, calls),
                          !.told = toldAfter(old.told, before, calls)]
         ELSE [active |-> TRUE, val |-> trueVal(after),
               calls |-> callsOf(before, calls),
               told |-> toldAfter(old.told, before, calls)]
    ELSE [NoRun EXCEPT !.told = toldAfter(old.told, before, calls)]

\* History of one turn of Window::run: born is the state the constructor
\* left, polled tells that an event was polled in this turn, dirty that the
\* Window is new or that, since the last present, some root component
\* returned a status other than IGNORED.
NewFrame(st) == [born |-> st, polled |-> FALSE, dirty |-> TRUE]

rootTook(comps, log) ==
    \E k \in DOMAIN log, j \in DOMAIN comps :
        log[k].id = comps[j].id /\ log[k].status # IGNORED

\* Window::run with a loop that is entered whatever the state is
RunTopNoTest ==
    /\ pc = "top"
    /\ pc' = "events"
    /\ last' = Obs("RunTop", NoEvent, 0, 0, <<>>, <<>>)
    /\ UNCHANGED <<state, pendingUpdate, components, run, frame>>

\* Window::run, the loop test
RunTop ==
    /\ pc = "top"
    /\ pc' = IF state = "RUN" THEN "events" ELSE "returned"
    /\ last' = Obs("RunTop", NoEvent, 0, 0, <<>>, <<>>)
    /\ UNCHANGED <<state, pendingUpdate, components, run, frame>>

\* the event went to the components; r is what the loop over them made
Dispatched(ev, r) ==
    /\ components' = r.comps
    /\ pendingUpdate' = r.seen
    /\ last' = Obs("PollEvent", ev, 0, FALSE, r.log, r.calls)
    /\ run' = runAfter(run, components[1], r.comps[1], ev, r.calls)
    /\ frame' = [frame EXCEPT !.polled = TRUE,
                              !.dirty = @ \/ rootTook(components, r.log)]
    /\ UNCHANGED state

\* Window::events, one turn of the poll loop with event ev
PollEvent(ev) ==
    /\ pc = "events"
    /\ IF WindowHandleEvent(ev)
       THEN /\ state' = "EXIT"
            /\ last' = Obs("PollEvent", ev, 0, TRUE, <<>>, <<>>)
            /\ run' = [NoRun EXCEPT !.told = run.told]
            /\ frame' = [frame EXCEPT !.polled = TRUE]
            /\ UNCHANGED <<pendingUpdate, components>>
       ELSE Dispatched(ev, dispatch(ev, components, pendingUpdate))
    /\ UNCHANGED pc

\* Window::events returns on an empty queue; Window::run then draws and
\* presents if pendingUpdate is set (Window::update clears it)
EndEvents ==
    /\ pc = "events"
    /\ pc' = "top"
    /\ pendingUpdate' = FALSE
    /\ last' = Obs("EndEvents", NoEvent, frame, pendingUpdate, <<>>, <<>>)
    /\ frame' = [frame EXCEPT !.polled = FALSE, !.dirty = FALSE]
    /\ UNCHANGED <<state, components, run>>

-----------------------------------------------------------------------------
(* Calls the application makes on the first root component *)

\* the call returns ret and leaves the component as c
Called(op, arg, ret, c, calls) ==
    /\ components' = [components EXCEPT ![1] = c]
    /\ last' = Obs(op, NoEvent, arg, ret, <<>>, calls)
    /\ run' = [NoRun EXCEPT !.told = toldAfter(run.told, components[1], calls)]
    /\ UNCHANGED <<state, pendingUpdate, pc, frame>>

\* ScrollPanel::addComponent
AddComponent(child) ==
    /\ components[1].kind = "ScrollPanel"
    /\ Len(components[1].comps) < MaxChildren
    /\ Called("AddComponent", child.id, 0,
              ScrollPanelAddComponent(components[1], child), <<>>)

\* Slider::setVal
SetVal(v) ==
    /\ components[1].kind = "Slider"
    /\ Called("SetVal", v, 0, setVal(components[1], v), <<>>)

\* Slider::setStepNo
SetStepNo(k) ==
    /\ components[1].kind = "Slider"
    /\ Called("SetStepNo", k, 0, setStepNo(components[1], k), <<>>)

SetCallbackDone(r) == Called("SetCallback", 0, 0, r.comp, r.calls)

\* Slider::setCallback
SetCallback ==
    /\ components[1].kind = "Slider"
    /\ SetCallbackDone(setCallback(components[1]))

\* TextInput::clear
Clear ==
    /\ components[1].kind = "TextInput"
    /\ Called("Clear", 0, 0, clear(components[1]), <<>>)

\* TextInput::insertChar
InsertChar(chr, index) ==
    /\ components[1].kind = "TextInput"
    /\ Len(components[1].text) < MaxLen
    /\ Called("InsertChar", [chr |-> chr, index |-> index], 0,
              insertChar(components[1], chr, index), <<>>)

\* TextInput::deleteChar
DeleteChar(index) ==
    /\ components[1].kind = "TextInput"
    /\ Called("DeleteChar", index, 0, deleteChar(components[1], index), <<>>)

\* ColorSelect::setColor(Color)
SetColorNumber(col) ==
    /\ components[1].kind = "ColorSelect"
    /\ Called("SetColorNumber", col, 0, setColorNum(components[1], col), <<>>)

SetColorStringDone(hexStr, r) == Called("SetColorString", hexStr, r.ret, r.comp, <<>>)

\* ColorSelect::setColor(const std::string &)
SetColorString(hexStr) ==
    /\ components[1].kind = "ColorSelect"
    /\ SetColorStringDone(hexStr, setColorStr(components[1], hexStr))

-----------------------------------------------------------------------------
(* Spec: a Window with a Panel of a Slider and two overlapping Buttons,    *)
(* and a second Slider, both registered as root components.                *)

RoutePanel ==
    NewPanel("P", Rect(0, 0, 10, 2),
             <<NewSlider("S", Rect(0, 0, 2, 1), 0, 1, 1, FALSE, 1),
               NewButton("A", Rect(4, 0, 2, 1), TRUE),
               NewButton("B", Rect(5, 0, 2, 1), TRUE)>>)

RouteSlider == NewSlider("T", Rect(0, 3, 2, 1), 0, 1, 1, FALSE, 1)

RoutePoints == {Point(0, 0), Point(5, 0), Point(0, 3)}

RouteEvents ==
    {Motion(p.x, p.y) : p \in RoutePoints}
        \cup {Down(p.x, p.y, 1) : p \in RoutePoints}
        \cup {Up(p.x, p.y) : p \in RoutePoints}
        \cup {Quit, KeyUp("ESCAPE"), KeyUp("OTHER"), KeyDown("ESCAPE")}

\* Window::Window leaves state RUN, or EXIT when the graphics are not valid;
\* pendingUpdate starts true
WindowInit(st) ==
    /\ state = st
    /\ pendingUpdate = TRUE
    /\ pc = "top"
    /\ last = Obs("Init", NoEvent, 0, 0, <<>>, <<>>)
    /\ run = NoRun
    /\ frame = NewFrame(st)

\* the map iterates its components in some order
Init ==
    /\ \E st \in {"RUN", "EXIT"} : WindowInit(st)
    /\ components \in {<<RoutePanel, RouteSlider>>, <<RouteSlider, RoutePanel>>}

Next ==
    \/ RunTop
    \/ EndEvents
    \/ \E ev \in RouteEvents : PollEvent(ev)

Spec == Init /\ [][Next]_vars

-----------------------------------------------------------------------------
(* SpecScroll: a Window whose one component is a ScrollPanel that the      *)
(* application fills while the wheel turns.                                *)

\* the children given to the ScrollPanel: Buttons and Texts, one or two rows high
ScrollChildren ==
    {NewButton("b", Rect(0, 0, 2, 1), TRUE), NewText("t", Rect(0, 0, 2, 2))}

ScrollEvents == {Wheel(1), Wheel(-1), Wheel(0), Motion(0, 0)}

InitScroll ==
    /\ WindowInit("RUN")
    /\ \E n \in 0..MaxShown :
           components = <<NewScrollPanel("L", Rect(0, 0, 2, 6), n)>>

NextScroll ==
    \/ RunTop
    \/ EndEvents
    \/ \E ev \in ScrollEvents : PollEvent(ev)
    \/ \E child \in ScrollChildren : AddComponent(child)

SpecScroll == InitScroll /\ [][NextScroll]_vars

-----------------------------------------------------------------------------
(* SpecSlider: a Window whose one component is a Slider                    *)

\* <<min, max, step>> with min < max and step >= 1; in the second the range
\* is not a multiple of the step
SliderParams == {<<0, 2, 1>>, <<0, 3, 2>>, <<1, 3, 1>>}

SliderPoints == {Point(d, d) : d \in 0..MaxCoord}

SliderEvents ==
    {Motion(p.x, p.y) : p \in SliderPoints}
        \cup {Down(p.x, p.y, 1) : p \in SliderPoints}
        \cup {Up(0, 0)}

InitSlider ==
    /\ WindowInit("RUN")
    /\ \E q \in SliderParams, vertic \in BOOLEAN :
           components = <<NewSlider("S", Rect(0, 0, 5, 5), q[1], q[2], q[3], vertic, 1)>>

NextSlider ==
    \/ RunTop
    \/ EndEvents
    \/ \E ev \in SliderEvents : PollEvent(ev)
    \/ \E v \in -1..4 : SetVal(v)
    \/ \E k \in -1..3 : SetStepNo(k)
    \/ SetCallback

SpecSlider == InitSlider /\ [][NextSlider]_vars

-----------------------------------------------------------------------------
(* SpecText: a Window whose one component is a TextInput                   *)

TextChars == {"a", "b"}

TextEvents ==
    {Down(0, 0, 1), Down(5, 5, 1)}
        \cup {TextEv(ch) : ch \in TextChars}
        \cup {KeyDown(k) : k \in EditKeys \cup {"RETURN", "OTHER"}}

\* the editor of the first root component
EditorOf(c) == IF c.kind = "ColorSelect" THEN c.input ELSE c

\* the text and the caret stay within the bound
Typable(c, ev) ==
    ev.type = "TEXTINPUT" => Len(c.text) < MaxLen /\ c.caretPos < MaxLen

\* Window::events on an event that leaves the editor within the bound
PollTyped(ev) ==
    /\ Typable(EditorOf(components[1]), ev)
    /\ PollEvent(ev)

InitText ==
    /\ WindowInit("RUN")
    /\ components = <<NewTextInput("I", Rect(0, 0, 2, 1), <<>>, FALSE, TRUE)>>

NextText ==
    \/ RunTop
    \/ EndEvents
    \/ \E ev \in TextEvents : PollTyped(ev)
    \/ Clear
    \/ \E ch \in TextChars, i \in 0..(MaxLen + 1) : InsertChar(ch, i)
    \/ \E i \in (0..MaxLen) \cup {SizeT(-1)} : DeleteChar(i)

SpecText == InitText /\ [][NextText]_vars

-----------------------------------------------------------------------------
(* SpecColor: a Window whose one component is a ColorSelect                *)

\* two-character pieces of the strings given to setColor: hex pairs in both
\* cases, and pairs with a letter, a blank or a sign in them
HexPairs == {<<"1", "A">>, <<"f", "b">>}
OddPairs == {<<"1", "G">>, <<"G", "1">>, <<" ", "1">>, <<"-", "1">>}

ColorStrings ==
    {a \o b \o c : a \in HexPairs, b \in HexPairs, c \in HexPairs}
        \cup {a \o <<"2", "B", "3", "C">> : a \in OddPairs}
        \cup {<<"2", "B">> \o a \o <<"3", "C">> : a \in OddPairs}
        \cup {<<>>, <<"1", "A", "2", "B", "3">>, <<"G", "G", "G", "G", "G", "G">>}

ColorBytes == {26, 251}

ColorNumbers == {Compose(r, g, b) : r \in ColorBytes, g \in ColorBytes, b \in ColorBytes}

\* presses on the swatch, outside everything, on the handle of the second
\* Slider at value 0 and on the editor, which lies right of the swatch; a
\* release; a character and Enter for the editor
ColorEvents ==
    {Down(0, 0, 1), Down(400, 400, 1), Down(70, 67, 1), Down(5, 1, 1), Up(70, 67),
     TextEv("A"), KeyDown("RETURN")}

InitColor ==
    /\ WindowInit("RUN")
    /\ components = <<finalize(NewColorSelect("C", Rect(0, 0, 4, 2)))>>

NextColor ==
    \/ RunTop
    \/ EndEvents
    \/ \E ev \in ColorEvents : PollTyped(ev)
    \/ \E col \in ColorNumbers : SetColorNumber(col)
    \/ \E s \in ColorStrings : SetColorString(s)

SpecColor == InitColor /\ [][NextColor]_vars

-----------------------------------------------------------------------------
(* SpecDropdown: a Window whose one component is a Dropdown with a factory *)

\* Dropdown::addComponent, called by the application with a new row
AddRow ==
    /\ components[1].kind = "Dropdown"
    /\ Len(components[1].panel.comps) < MaxRows
    /\ Called("addComponent", Len(components[1].panel.comps), 0,
              DropdownAddComponent(components[1],
                  fact(components[1], Len(components[1].panel.comps))), <<>>)

\* Dropdown::removeAt, called by the application
RemoveAt(index) ==
    /\ components[1].kind = "Dropdown"
    /\ Called("removeAt", index, 0, removeAt(components[1], index), <<>>)

\* Dropdown::swapElems, called by the application
SwapElems(ind1, ind2) ==
    /\ components[1].kind = "Dropdown"
    /\ Called("swapElems", <<ind1, ind2>>, 0, swapElems(components[1], ind1, ind2), <<>>)

\* the trigger is at (0, 0); the popup starts at (0, 2) and shows one row
\* of height 2, whose up, down and delete controls start at x = 3, 6 and 9;
\* the add control is at (1, 4)
DropEvents ==
    {Down(0, 0, 1), Down(50, 50, 1), Down(1, 4, 1), Wheel(1), Wheel(-1),
     Down(3, 2, 1), Down(6, 2, 1), Down(9, 2, 1)}

\* the number of rows stays within the bound
Addable(c, ev) ==
    thisWasClicked(c.addButton, ev) # 0 => Len(c.panel.comps) < MaxRows

\* Window::events on an event that leaves the rows within the bound
PollRows(ev) ==
    /\ Addable(components[1], ev)
    /\ PollEvent(ev)

\* indices given to removeAt and swapElems: in the list and beside it
DropIndices == {-1, 0, MaxRows - 1}

InitDropdown ==
    /\ WindowInit("RUN")
    /\ components = <<setFactory(NewDropdown("DD", Rect(0, 0, 12, 2),
                                             Rect(0, 0, 2, 2), 1, TRUE, TRUE))>>

NextDropdown ==
    \/ RunTop
    \/ EndEvents
    \/ \E ev \in DropEvents : PollRows(ev)
    \/ AddRow
    \/ \E i \in DropIndices : RemoveAt(i)
    \/ \E i \in DropIndices : SwapElems(i, i + 1)

SpecDropdown == InitDropdown /\ [][NextDropdown]_vars


-----------------------------------------------------------------------------
(* SpecWidgets: a Window whose one component is an Expandable, a ComboBox, *)
(* a ColorSelect, a Dropdown with two rows or a ScrollPanel that shows one *)
(* of its two children; the application hides and shows it                 *)

\* Component::setVisibility (show and hide), called by the application
SetVisibility(val) ==
    Called("setVisibility", val, 0, setVisibility(components[1], val), <<>>)

\* ComboBox::setSelection, called by the application with the index of an
\* option
SetSelection(ind) ==
    /\ components[1].kind = "ComboBox"
    /\ ind \in 0..(Len(components[1].options) - 1)
    /\ Called("setSelection", ind, 0, setSelection(components[1], ind), <<>>)

\* translate, called by the application; the component stays within
\* MaxShift of the origin
TranslateBy(dx, dy) ==
    /\ components[1].rect.x + dx \in 0..MaxShift
    /\ components[1].rect.y + dy \in 0..MaxShift
    /\ Called("translate", Point(dx, dy), 0, Translate(components[1], dx, dy), <<>>)

\* the popup of the Expandable holds Button A, one unit in from its corner
ExpandScene ==
    NewExpandable("E", Rect(0, 0, 4, 2),
                  NewPanel("popup", Rect(0, 0, 6, 4),
                           <<NewButton("A", Rect(1, 1, 2, 1), TRUE)>>))

\* what makePanel may read as the width and the height of the ComboBox
ComboDims == {<<4, 2>>, <<0, 0>>, <<-3, 5>>}

ComboScenes ==
    {NewComboBox("K", Rect(0, 0, 4, 2), <<"x", "y", "z">>, 2, d[1], d[2]) : d \in ComboDims}

ColorScene == finalize(NewColorSelect("C", Rect(0, 0, 4, 2)))

DropScene ==
    DropdownAddComponent(
        DropdownAddComponent(
            NewDropdown("DD", Rect(0, 0, 12, 2), Rect(0, 0, 2, 2), 1, TRUE, TRUE),
            NewText("0", Rect(0, 0, 2, 2))),
        NewText("1", Rect(0, 0, 2, 2)))

ListScene ==
    ScrollPanelAddComponent(
        ScrollPanelAddComponent(NewScrollPanel("L", Rect(0, 0, 4, 2), 1),
                                NewButton("A", Rect(0, 0, 4, 2), TRUE)),
        NewSlider("S", Rect(0, 0, 4, 1), 0, 1, 1, FALSE, 1))

WidgetScenes == {ExpandScene, ColorScene, DropScene, ListScene} \cup ComboScenes

\* presses on the trigger (single and double), in the popup on and off what
\* it holds, on the delete control of a Dropdown row and outside everything;
\* motion, a release and the wheel
WidgetEvents ==
    {Down(0, 0, 1), Down(0, 0, 2), Down(1, 3, 1), Down(1, 5, 1), Down(9, 2, 1),
     Down(400, 400, 1), Motion(0, 0), Motion(1, 3), Up(1, 3), Wheel(1), Wheel(-1)}

InitWidgets ==
    /\ WindowInit("RUN")
    /\ \E c \in WidgetScenes : components = <<c>>

NextWidgets ==
    \/ RunTop
    \/ EndEvents
    \/ \E ev \in WidgetEvents : PollEvent(ev)
    \/ \E val \in BOOLEAN : SetVisibility(val)
    \/ \E ind \in 0..2 : SetSelection(ind)

SpecWidgets == InitWidgets /\ [][NextWidgets]_vars

-----------------------------------------------------------------------------
(* SpecMove: the components of SpecWidgets, opened, scrolled and moved     *)

MoveEvents == {Down(0, 0, 1), Wheel(1), Wheel(-1)}

NextMove ==
    \/ RunTop
    \/ EndEvents
    \/ \E ev \in MoveEvents : PollEvent(ev)
    \/ \E dx, dy \in {-1, 0, 1} : TranslateBy(dx, dy)

SpecMove == InitWidgets /\ [][NextMove]_vars

-----------------------------------------------------------------------------
(* SpecAttach: a Window whose one component is a Dropdown that is given
   widgets built without a Window as rows *)

\* the widgets given to Dropdown::addComponent, as their constructors leave them
AttachRows ==
    {comboBoxMade("K", Rect(0, 0, 2, 2), <<"x", "y", "z">>, 2, d[1], d[2]) : d \in ComboDims}
        \cup {NewColorSelect("C", Rect(0, 0, 2, 2)), NewText("T", Rect(0, 0, 2, 2))}

\* Dropdown::addComponent, called by the application with the widget comp
AddWidget(comp) ==
    /\ components[1].kind = "Dropdown"
    /\ Len(components[1].panel.comps) < MaxRows
    /\ Called("addComponent", comp.id, 0, DropdownAddComponent(components[1], comp), <<>>)

\* the trigger is at (0, 0), the first shown row at (0, 2), its delete
\* control at x = 9
AttachEvents == {Down(0, 0, 1), Down(1, 3, 1), Down(9, 2, 1), Down(50, 50, 1)}

InitAttach ==
    /\ WindowInit("RUN")
    /\ components = <<NewDropdown("DD", Rect(0, 0, 12, 2), Rect(0, 0, 2, 2), 1, TRUE, TRUE)>>

NextAttach ==
    \/ RunTop
    \/ EndEvents
    \/ \E ev \in AttachEvents : PollRows(ev)
    \/ \E comp \in AttachRows : AddWidget(comp)

SpecAttach == InitAttach /\ [][NextAttach]_vars

-----------------------------------------------------------------------------
(* SpecHover: a Window whose one component is a Panel of two Buttons, one
   below the other, or a ComboBox whose rows lie in the same places *)

HoverPanel ==
    NewPanel("P", Rect(0, 0, 6, 6),
             <<NewButton("A", Rect(0, 2, 4, 2), TRUE),
               NewButton("B", Rect(0, 4, 4, 2), TRUE)>>)

\* the pointer over the first child, over the second, over the trigger of
\* the ComboBox and outside everything; presses on the trigger and on the
\* first child
HoverEvents ==
    {Motion(1, 3), Motion(1, 5), Motion(1, 1), Motion(50, 50),
     Down(0, 0, 1), Down(1, 3, 1)}

InitHover ==
    /\ WindowInit("RUN")
    /\ \E c \in {HoverPanel} \cup ComboScenes : components = <<c>>

NextHover ==
    \/ RunTop
    \/ EndEvents
    \/ \E ev \in HoverEvents : PollEvent(ev)

SpecHover == InitHover /\ [][NextHover]_vars

-----------------------------------------------------------------------------
(* The claims.  The children, the Panel and the roots of the routing scene *)
(* are told apart by their ids in the log of the last event.               *)

RouteChildIds == [k \in 1..Len(RoutePanel.comps) |-> RoutePanel.comps[k].id]

IsChildOffer(e) == \E k \in DOMAIN RouteChildIds : RouteChildIds[k] = e.id
IsPanelOffer(e) == e.id = RoutePanel.id
IsRootOffer(e) == e.id \in {RoutePanel.id, RouteSlider.id}

ChildOffers == SelectSeq(last.log, IsChildOffer)
PanelOffers == SelectSeq(last.log, IsPanelOffer)
RootOffers == SelectSeq(last.log, IsRootOffer)

\* C1: a visible Panel offers the event to its children in list order and
\* stops at the first child that returns HANDLED; when the first child
\* returns IGNORED and the second HANDLED, the Panel returns HANDLED and no
\* child after the second is offered the event.
C1_PanelStopsAtFirstHandled ==
    (last.op = "PollEvent" /\ PanelOffers # <<>>) =>
        /\ Len(ChildOffers) <= Len(RouteChildIds)
        /\ \A k \in 1..Len(ChildOffers) : ChildOffers[k].id = RouteChildIds[k]
        /\ \A k \in 1..(Len(ChildOffers) - 1) : ChildOffers[k].status # HANDLED
        /\ Len(ChildOffers) < Len(RouteChildIds) =>
               /\ ChildOffers # <<>>
               /\ ChildOffers[Len(ChildOffers)].status = HANDLED
        /\ (/\ Len(ChildOffers) >= 2
            /\ ChildOffers[1].status = IGNORED
            /\ ChildOffers[2].status = HANDLED) =>
               /\ Len(ChildOffers) = 2
               /\ PanelOffers[1].status = HANDLED

\* the first child ignored the event, the second handled it
C1_Witness ==
    /\ last.op = "PollEvent"
    /\ PanelOffers = <<[id |-> "P", status |-> HANDLED]>>
    /\ ChildOffers = <<[id |-> "S", status |-> IGNORED],
                       [id |-> "A", status |-> HANDLED]>>

\* C2: a child or root that returns FORWARDED never ends the iteration of
\* its container: the next child of the Panel, and the next root of the
\* Window, is still offered the event; the Panel then reports HANDLED and
\* the Window has pendingUpdate set.
C2_ForwardedKeepsIterating ==
    last.op = "PollEvent" =>
        /\ \A k \in 1..Len(ChildOffers) :
               (ChildOffers[k].status = FORWARDED /\ k < Len(RouteChildIds))
                   => Len(ChildOffers) > k
        /\ (\E k \in 1..Len(ChildOffers) : ChildOffers[k].status = FORWARDED)
               => PanelOffers[1].status = HANDLED
        /\ \A k \in 1..Len(RootOffers) :
               (RootOffers[k].status = FORWARDED /\ k < Len(components))
                   => Len(RootOffers) > k
        /\ (\E k \in 1..Len(RootOffers) : RootOffers[k].status # IGNORED)
               => pendingUpdate

\* the first root forwarded a release, and so did the first child of the
\* Panel offered the event after it
C2_Witness ==
    /\ last.op = "PollEvent"
    /\ RootOffers = <<[id |-> "T", status |-> FORWARDED],
                      [id |-> "P", status |-> HANDLED]>>
    /\ ChildOffers = <<[id |-> "S", status |-> FORWARDED],
                       [id |-> "A", status |-> IGNORED],
                       [id |-> "B", status |-> IGNORED]>>
    /\ pendingUpdate

\* C3 as stated: for every ScrollPanel, also one with fewer children than
\* numShown, 0 <= index and index + numShown <= childCount.
C3_AsStated ==
    /\ 0 <= components[1].index
    /\ components[1].index + components[1].numShown <= Len(components[1].comps)

\* C3: for every ScrollPanel 0 <= index; index + numShown <= childCount once
\* there are at least numShown children, and index is 0 while there are fewer.
C3_IndexInRange ==
    /\ 0 <= components[1].index
    /\ Len(components[1].comps) >= components[1].numShown
           => components[1].index + components[1].numShown <= Len(components[1].comps)
    /\ Len(components[1].comps) < components[1].numShown => components[1].index = 0

\* the wheel has moved the window to the last children
C3_Witness ==
    /\ last.op = "PollEvent"
    /\ last.ev.type = "MOUSEWHEEL"
    /\ components[1].index >= 1
    /\ components[1].numShown >= 1
    /\ components[1].index + components[1].numShown = Len(components[1].comps)

\* C4: after any addComponent calls and wheel events the visible children of
\* a ScrollPanel are exactly those at positions index .. index + numShown - 1;
\* every other child is hidden.
C4_WindowIsVisible ==
    \A i \in 1..Len(components[1].comps) :
        components[1].comps[i].shown
            <=> (/\ i - 1 >= components[1].index
                 /\ i - 1 <= components[1].index + components[1].numShown - 1)

\* the wheel has moved the window; children before it and after it are hidden
C4_Witness ==
    /\ last.op = "PollEvent"
    /\ last.ev.type = "MOUSEWHEEL"
    /\ components[1].index >= 1
    /\ components[1].numShown >= 1
    /\ Len(components[1].comps) > components[1].index + components[1].numShown
    /\ ~components[1].comps[1].shown
    /\ components[1].comps[components[1].index + 1].shown
    /\ ~components[1].comps[Len(components[1].comps)].shown

\* C5 as stated: for a Slider with min < max and step >= 1, also when
\* max - min is no multiple of step, trueVal is within [min, max] and is
\* min + k * step after every setVal, setStepNo and drag.
C5_AsStated ==
    /\ trueVal(components[1]) >= components[1].min
    /\ trueVal(components[1]) <= components[1].max
    /\ (trueVal(components[1]) - components[1].min) % components[1].step = 0

\* C6: during one drag, a run of consecutive motion events that leave the
\* quantized value the same invokes the callback at most once.
C6_OneCallbackPerRun == run.calls <= 1

\* a motion event of a drag kept the value the callback was given before it
C6_Witness ==
    /\ last.op = "PollEvent"
    /\ last.ev.type = "MOUSEMOTION"
    /\ last.calls = <<>>
    /\ components[1].dragging
    /\ components[1].onValChange
    /\ run.active
    /\ run.calls = 1

\* C7 as stated: after any navigation and editing, the direct calls of
\* insertChar and deleteChar among them, 0 <= caret <= length of the text.
C7_AsStated ==
    /\ 0 <= components[1].caretPos
    /\ components[1].caretPos <= Len(components[1].text)

\* C8: insertChar(c, p) with 0 <= p <= length makes the text one longer,
\* keeps the characters before p, puts c at p and moves the rest one place;
\* deleteChar(p) with p outside [0, length), Backspace at caret 0 among
\* them, leaves the text unchanged.
C8_InsertAndDelete ==
    [][/\ (/\ last'.op = "InsertChar"
           /\ last'.arg.index <= Len(components[1].text))
          => /\ Len(components'[1].text) = Len(components[1].text) + 1
             /\ \A i \in 1..last'.arg.index :
                    components'[1].text[i] = components[1].text[i]
             /\ components'[1].text[last'.arg.index + 1] = last'.arg.chr
             /\ \A i \in (last'.arg.index + 1)..Len(components[1].text) :
                    components'[1].text[i + 1] = components[1].text[i]
       /\ (/\ last'.op = "DeleteChar"
           /\ last'.arg >= Len(components[1].text))
          => components'[1].text = components[1].text
       /\ (/\ last'.op = "PollEvent"
           /\ last'.ev = KeyDown("BACKSPACE")
           /\ components[1].caretPos = 0)
          => components'[1].text = components[1].text
      ]_vars

\* deleteChar was called on a full text with the index Backspace passes at
\* caret 0
C8_Witness ==
    /\ last.op = "DeleteChar"
    /\ last.arg = SizeT(-1)
    /\ Len(components[1].text) = MaxLen

SixHexDigits(s) == Len(s) = 6 /\ \A i \in 1..6 : IsHexDigit(s[i])
Upper(s) == [i \in 1..Len(s) |-> ToUpper(s[i])]

\* C9: for every string s of six hex digits setColor(s) succeeds and str()
\* is s in upper case; for every 24-bit c, after setColor(c), color() is c
\* and slider i holds (c >> (16 - 8 * i)) & 0xFF.
C9_ColorRoundTrip ==
    /\ (last.op = "SetColorString" /\ SixHexDigits(last.arg))
           => /\ last.ret = TRUE
              /\ str(components[1]) = Upper(last.arg)
    /\ last.op = "SetColorNumber"
           => /\ color(components[1]) = last.arg
              /\ \A i \in 0..2 :
                     trueVal(ColSlider(components[1], i)) = last.arg[3 - i]

\* a string in both cases went in and came back in upper case
C9_Witness ==
    /\ last.op = "SetColorString"
    /\ last.arg = <<"f", "b", "1", "A", "1", "A">>
    /\ last.ret = TRUE
    /\ str(components[1]) = <<"F", "B", "1", "A", "1", "A">>

\* C10 as stated: setColor(hexStr) returns failure and leaves the sliders
\* and the text editor as they were for every input shorter than 6 or not
\* of six hex digits.
C10_AsStated ==
    [][(last'.op = "SetColorString" /\ ~SixHexDigits(last'.arg))
           => (last'.ret = FALSE /\ components' = components)]_vars

IsExitSignal(ev) ==
    \/ ev.type = "QUIT"
    \/ ev.type \in {"KEYDOWN", "KEYUP"} /\ ev.sym = "ESCAPE"

IsQuitOrEscapeRelease(ev) ==
    \/ ev.type = "QUIT"
    \/ ev.type = "KEYUP" /\ ev.sym = "ESCAPE"

\* C14 as stated: a quit signal or an Escape key event, press or release,
\* moves the Window to its exit state and is offered to no root component;
\* the exit state is never left and run() returns at the end of the turn.
C14_AsStated ==
    [][/\ (last'.op = "PollEvent" /\ IsExitSignal(last'.ev))
              => (state' = "EXIT" /\ last'.log = <<>>)
       /\ state = "EXIT" => state' = "EXIT"
       /\ (state = "EXIT" /\ pc = "top") => pc' = "returned"
      ]_vars

\* C14: a quit signal or the release of the Escape key moves the Window to
\* its exit state and is offered to no root component; the exit state is
\* never left, and run() returns at the loop test that ends the turn.
C14_ExitOnQuitOrEscapeRelease ==
    [][/\ (last'.op = "PollEvent" /\ IsQuitOrEscapeRelease(last'.ev))
              => (state' = "EXIT" /\ last'.log = <<>>)
       /\ state = "EXIT" => state' = "EXIT"
       /\ (state = "EXIT" /\ pc = "top") => pc' = "returned"
       /\ pc = "returned" => UNCHANGED vars
      ]_vars

\* the Window was running, took the release of Escape and run() returned
C14_Witness ==
    /\ frame.born = "RUN"
    /\ last.op = "RunTop"
    /\ state = "EXIT"
    /\ pc = "returned"

\* C15: in each turn of Window::run the redraw and present happen once if
\* the pending flag is set and not at all otherwise; the flag is set in a
\* new Window and by every event for which some root component returned a
\* status other than IGNORED, and present clears it, so a turn whose events
\* were all IGNORED by every root component causes no redraw.
C15_RedrawOncePerDirtyTurn ==
    /\ pendingUpdate <=> frame.dirty
    /\ last.op = "EndEvents" =>
           /\ last.ret <=> last.arg.dirty
           /\ ~pendingUpdate

\* a turn polled events, every root ignored them all, and nothing was drawn
C15_Witness ==
    /\ last.op = "EndEvents"
    /\ last.arg.polled
    /\ ~last.ret

\* C17: when the rendering backend fails to initialise the Window is made in
\* its exit state and run() returns at once: no event is polled or
\* dispatched and nothing is drawn.
C17_FailedBackendNeverRuns ==
    frame.born = "EXIT" =>
        /\ state = "EXIT"
        /\ pc \in {"top", "returned"}
        /\ last.op \in {"Init", "RunTop"}
        /\ ~frame.polled
        /\ components \in {<<RoutePanel, RouteSlider>>, <<RouteSlider, RoutePanel>>}

\* run() has returned from a Window made in its exit state
C17_Witness ==
    /\ frame.born = "EXIT"
    /\ pc = "returned"
    /\ last.op = "RunTop"

\* C19: a Slider's value and handle change through events only while it is
\* tracking: tracking becomes true only on a press inside the handle, is
\* false after every release the Slider receives, and a motion event that
\* arrives while it is not tracking changes neither val nor the handle and
\* invokes no callback.
C19_ChangesOnlyWhileTracking ==
    [][/\ (~components[1].dragging /\ components'[1].dragging)
              => /\ last'.op = "PollEvent"
                 /\ last'.ev.type = "MOUSEBUTTONDOWN"
                 /\ PointInRect(Point(last'.ev.x, last'.ev.y),
                                components[1].sliderRect)
       /\ (last'.op = "PollEvent" /\ last'.ev.type = "MOUSEBUTTONUP")
              => ~components'[1].dragging
       /\ (last'.op = "PollEvent" /\ ~components[1].dragging)
              => /\ components'[1].val = components[1].val
                 /\ components'[1].sliderRect = components[1].sliderRect
                 /\ last'.calls = <<>>
      ]_vars

\* a Slider with a callback that was moved before got a motion event while
\* not tracking
C19_Witness ==
    /\ last.op = "PollEvent"
    /\ last.ev.type = "MOUSEMOTION"
    /\ last.log = <<[id |-> "S", status |-> IGNORED]>>
    /\ ~components[1].dragging
    /\ components[1].onValChange
    /\ trueVal(components[1]) # components[1].min

\* C20: after a release is offered to a visible Panel that holds several
\* visible Sliders, as the popup of a ColorSelect does, none of them is
\* tracking: the FORWARDED of an earlier Slider does not keep the release
\* from the later ones.
C20_ReleaseReachesEverySlider ==
    (/\ last.op = "PollEvent"
     /\ last.ev.type = "MOUSEBUTTONUP"
     /\ components[1].panel.shown
     /\ \E k \in DOMAIN last.log : last.log[k].id = components[1].panel.id)
        => \A k \in DOMAIN components[1].panel.comps :
               ~components[1].panel.comps[k].dragging

\* the release went through the three Sliders of the open popup
C20_Witness ==
    /\ last.op = "PollEvent"
    /\ last.ev.type = "MOUSEBUTTONUP"
    /\ components[1].panel.shown
    /\ last.log = <<[id |-> "C", status |-> HANDLED],
                    [id |-> "input", status |-> IGNORED],
                    [id |-> "popup", status |-> HANDLED],
                    [id |-> "slider0", status |-> FORWARDED],
                    [id |-> "slider1", status |-> FORWARDED],
                    [id |-> "slider2", status |-> FORWARDED]>>

\* C11: in every Dropdown the index that a decorated row remembers is the
\* position of the row in the list, whatever additions, removeAt and
\* swapElems calls, from the application or from the rows' controls, came
\* before.
C11_RowIndexIsPosition ==
    \A j \in DOMAIN components :
        components[j].kind = "Dropdown" =>
            \A k \in DOMAIN components[j].panel.comps :
                components[j].panel.comps[k].index = k - 1

\* the delete control of the first row was pressed, and the row that is
\* left is the one the factory made for an empty list: a swap had put it
\* second
C11_Witness ==
    /\ components[1].kind = "Dropdown"
    /\ last.op = "PollEvent"
    /\ last.calls # <<>>
    /\ last.calls[1].id = "removeAt"
    /\ last.calls[1].arg = 0
    /\ Len(components[1].panel.comps) = 1
    /\ components[1].panel.comps[1].parts[1].id = "0"
    /\ components[1].panel.comps[1].index = 0

\* the press is a single click inside the trigger of c
OnTrigger(c, ev) ==
    /\ ev.type = "MOUSEBUTTONDOWN"
    /\ ev.clicks = 1
    /\ PointInRect(Point(ev.x, ev.y), c.rect)

\* the press is inside the rectangle of the popup of c
InPopup(c, ev) ==
    /\ ev.type = "MOUSEBUTTONDOWN"
    /\ PointInRect(Point(ev.x, ev.y), c.panel.rect)

\* C12: for a visible Expandable, a single-click press on the trigger of a
\* closed one opens it; a press outside both the trigger and the popup
\* closes an open one; a press inside the popup of an open one leaves it
\* open.
C12_TriggerOpensOutsideCloses ==
    [][(/\ last'.op = "PollEvent"
        /\ components[1].kind = "Expandable"
        /\ components[1].shown)
       => /\ (~components[1].expanded /\ OnTrigger(components[1], last'.ev))
                => components'[1].expanded
          /\ (/\ components[1].expanded
              /\ last'.ev.type = "MOUSEBUTTONDOWN"
              /\ ~PointInRect(Point(last'.ev.x, last'.ev.y), components[1].rect)
              /\ ~InPopup(components[1], last'.ev))
                => ~components'[1].expanded
          /\ (components[1].expanded /\ InPopup(components[1], last'.ev))
                => components'[1].expanded]_vars

\* an open Expandable has just been closed by a press outside its trigger
\* and its popup
C12_Witness ==
    /\ components[1].kind = "Expandable"
    /\ components[1].shown
    /\ last.op = "PollEvent"
    /\ last.ev = Down(400, 400, 1)
    /\ last.log # <<>>
    /\ last.log[1] = [id |-> "E", status |-> FORWARDED]
    /\ ~components[1].expanded

ExpandableKinds == {"Expandable", "ComboBox", "Dropdown", "ColorSelect"}

\* C18: in every state of an Expandable, a ComboBox, a Dropdown or a
\* ColorSelect the popup is visible exactly when the component is expanded,
\* and a new one is closed.
C18_PopupShownIffExpanded ==
    \A j \in DOMAIN components :
        components[j].kind \in ExpandableKinds =>
            /\ components[j].panel.shown <=> components[j].expanded
            /\ last.op = "Init" => ~components[j].expanded

\* a press on the second row of an open ComboBox has selected it and closed
\* the popup
C18_Witness ==
    /\ components[1].kind = "ComboBox"
    /\ last.op = "PollEvent"
    /\ last.calls = <<[id |-> "setSelection", arg |-> 1]>>
    /\ components[1].index = 1
    /\ components[1].text = "y"
    /\ ~components[1].expanded
    /\ ~components[1].panel.shown

\* the components that c owns
Children(c) ==
    CASE c.kind \in {"Panel", "ScrollPanel"} -> c.comps
      [] c.kind \in {"Expandable", "ComboBox"} -> <<c.panel>>
      [] c.kind = "ColorSelect" -> <<c.panel, c.input>>
      [] c.kind = "Dropdown" -> <<c.panel, c.addButton>>
      [] c.kind = "MiniPanel" -> c.parts
      [] OTHER -> <<>>

\* c and everything under it
RECURSIVE Nodes(_)
Nodes(c) == {c} \cup UNION {Nodes(Children(c)[k]) : k \in DOMAIN Children(c)}

\* the events tried on the hidden components: those of SpecWidgets, a press
\* where the delete control of a row lies that was never placed, and keys
HiddenProbes ==
    WidgetEvents \cup {Down(9, 0, 1), TextEv("A"), KeyDown("RETURN"), KeyDown("LEFT")}

\* the call on d returned IGNORED, changed nothing and called nothing
Untouched(d, r) == r.status = IGNORED /\ r.comp = d /\ r.calls = <<>>

\* C13: whatever its type, a hidden component answers every event with
\* IGNORED, keeps its state and that of everything under it, and draws
\* nothing.
C13_HiddenIgnoresAndDrawsNothing ==
    \A j \in DOMAIN components :
        \A d \in Nodes(components[j]) :
            ~d.shown =>
                /\ Draw(d) = <<>>
                /\ \A ev \in HiddenProbes : Untouched(d, HandleEvent(d, ev))

\* a Dropdown that was hidden while open was offered a press on the delete
\* control of its first row; it returned IGNORED and kept both rows
C13_Witness ==
    /\ components[1].kind = "Dropdown"
    /\ ~components[1].shown
    /\ components[1].expanded
    /\ last.op = "PollEvent"
    /\ last.ev = Down(9, 2, 1)
    /\ last.log = <<[id |-> "DD", status |-> IGNORED]>>
    /\ Len(components[1].panel.comps) = 2
    /\ Draw(components[1]) = <<>>

\* the rectangles and points that c itself holds: its rect, the handle of a
\* Slider, the scroll origin of a ScrollPanel
OwnPlaces(c) ==
    <<c.rect>>
        \o (IF c.kind = "Slider" THEN <<c.sliderRect>> ELSE <<>>)
        \o (IF c.kind = "ScrollPanel"
            THEN <<Rect(c.scrollBegin.x, c.scrollBegin.y, 0, 0)>> ELSE <<>>)

\* the places of c and of everything under it, in a fixed order
RECURSIVE Places(_)
RECURSIVE placesOfAll(_)
placesOfAll(comps) ==
    IF comps = <<>> THEN <<>> ELSE Places(Head(comps)) \o placesOfAll(Tail(comps))
Places(c) == OwnPlaces(c) \o placesOfAll(Children(c))

ShiftAll(places, dx, dy) ==
    [k \in DOMAIN places |-> translateRect(places[k], dx, dy)]

\* C16: translate(dx, dy) moves the rect of the component and every part it
\* owns (children, scroll origin, popup, row controls, Slider handle, add
\* control, hex editor) by (dx, dy) and changes no width or height.
C16_AsStated ==
    [][last'.op = "translate"
       => Places(components'[1])
            = ShiftAll(Places(components[1]), last'.arg.x, last'.arg.y)]_vars

\* C21: the callback of a Slider is given a value only when the value is
\* not the one it was given last, the call made by setCallback counted;
\* whatever min is.
C21_AsStated ==
    [][(/\ components[1].kind = "Slider"
        /\ last'.op = "PollEvent"
        /\ last'.calls # <<>>
        /\ run.told # <<>>)
       => last'.calls[1].arg # run.told[1]]_vars

\* C22: an inactive TextInput leaves text and caret alone on text and key
\* events and reports IGNORED; a press inside a visible inactive one
\* activates it and is HANDLED; a press outside an active one deactivates it
\* and is IGNORED; Enter in an active one deactivates it and invokes the
\* confirm callback once, with the text.
C22_ActivationMode ==
    [][(/\ last'.op = "PollEvent"
        /\ components[1].kind = "TextInput"
        /\ components[1].shown)
       => /\ (~components[1].active /\ last'.ev.type \in {"TEXTINPUT", "KEYDOWN"})
                => /\ components'[1] = components[1]
                   /\ last'.log = <<Offer(components[1], IGNORED)>>
                   /\ last'.calls = <<>>
          /\ (~components[1].active /\ thisWasClicked(components[1], last'.ev) # 0)
                => /\ components'[1].active
                   /\ last'.log = <<Offer(components[1], HANDLED)>>
          /\ (components[1].active /\ clickOutside(components[1], last'.ev) # 0)
                => /\ ~components'[1].active
                   /\ last'.log = <<Offer(components[1], IGNORED)>>
          /\ (/\ components[1].active
              /\ last'.ev.type = "KEYDOWN"
              /\ last'.ev.sym \in EnterKeys)
                => /\ ~components'[1].active
                   /\ components[1].onConfirm
                        => last'.calls = <<[id |-> components[1].id,
                                            arg |-> components[1].text]>>]_vars

\* Enter in an active TextInput that held two characters confirmed them
C22_Witness ==
    /\ components[1].kind = "TextInput"
    /\ last.op = "PollEvent"
    /\ last.ev = KeyDown("RETURN")
    /\ Len(components[1].text) = 2
    /\ last.calls = <<[id |-> "I", arg |-> components[1].text]>>
    /\ ~components[1].active

\* the row of option i took the press of the last event
RowPressed(c, i) ==
    /\ last.op = "PollEvent"
    /\ last.ev.type = "MOUSEBUTTONDOWN"
    /\ \E k \in DOMAIN last.log :
          last.log[k] = [id |-> c.options[i + 1], status |-> HANDLED]

-----------------------------------------------------------------------------
\* C24: however often setWindow reaches a ComboBox or a ColorSelect, the
\* popup of the ComboBox holds exactly one row per option and the popup of
\* the ColorSelect exactly three Sliders
C24_AsStated ==
    \A c \in Nodes(components[1]) :
        /\ c.kind = "ComboBox" => Len(c.panel.comps) = Len(c.options)
        /\ c.kind = "ColorSelect" => Len(c.panel.comps) = 3

-----------------------------------------------------------------------------
\* C25: a press on the swatch of a shown ColorSelect deactivates a visible
\* editor and toggles the popup; with the editor hidden and the popup
\* expanded it clears and activates the editor and leaves the popup expanded;
\* with both closed a single click opens the popup
C25_SwatchClick ==
    [][(/\ components[1].kind = "ColorSelect"
        /\ components[1].shown
        /\ last'.op = "PollEvent"
        /\ thisWasClicked(components[1], last'.ev) # 0)
       => IF components[1].input.shown
          THEN /\ ~components'[1].input.shown
               /\ ~components'[1].input.active
               /\ components'[1].expanded = ~components[1].expanded
          ELSE IF components[1].expanded
          THEN /\ components'[1].input.shown
               /\ components'[1].input.active
               /\ components'[1].input.text = <<>>
               /\ components'[1].expanded
          ELSE last'.ev.clicks = 1
                   => components'[1].expanded /\ ~components'[1].input.shown]_vars

\* the third click of the cycle: the editor, which held a character, was
\* deactivated by a press on the swatch, told its text, and the popup closed
C25_Witness ==
    /\ components[1].kind = "ColorSelect"
    /\ last.op = "PollEvent"
    /\ last.ev = Down(0, 0, 1)
    /\ last.calls = <<[id |-> "input", arg |-> <<"A">>]>>
    /\ ~components[1].expanded
    /\ ~components[1].input.shown

\* C30: the editor of a ColorSelect is visible exactly when it is active, and
\* a visible editor implies an expanded popup
C30_AsStated ==
    components[1].kind = "ColorSelect"
        => /\ components[1].input.shown <=> components[1].input.active
           /\ components[1].input.shown => components[1].expanded

-----------------------------------------------------------------------------
\* the wrapped widgets of the rows of a Dropdown, by name, in list order
RowIds(c) == [k \in DOMAIN c.panel.comps |-> c.panel.comps[k].parts[1].id]

\* the indices the rows remember, in list order
RowIdx(c) == [k \in DOMAIN c.panel.comps |-> c.panel.comps[k].index]

InRange(c, i) == i >= 0 /\ i < Len(c.panel.comps)

\* what was asked of the Dropdown by the step that made l: a direct call of
\* removeAt or swapElems, or the callback of a control of a row
Asked(l) ==
    IF l.op = "removeAt" THEN [id |-> "removeAt", arg |-> l.arg, other |-> 0]
    ELSE IF l.op = "swapElems" THEN [id |-> "swapElems", arg |-> l.arg[1], other |-> l.arg[2]]
    ELSE IF l.op = "PollEvent" /\ l.calls # <<>> /\ l.calls[1].id \in {"removeAt", "swapElems"}
    THEN l.calls[1]
    ELSE [id |-> "none", arg |-> 0, other |-> 0]

-----------------------------------------------------------------------------
\* 0 <= index and index + numShown <= the number of rows
WindowInRange(p) == p.index >= 0 /\ p.index + p.numShown <= Len(p.comps)

\* C27: when the scroll window of the popup of a Dropdown is in range and a
\* press on a delete control removes a row, the window is in range after the
\* event and the shown rows are those at index .. index + numShown - 1
C27_AsStated ==
    [][(/\ components[1].kind = "Dropdown"
        /\ last'.op = "PollEvent"
        /\ Asked(last').id = "removeAt"
        /\ InRange(components[1], Asked(last').arg)
        /\ WindowInRange(components[1].panel))
       => /\ WindowInRange(components'[1].panel)
          /\ \A k \in DOMAIN components'[1].panel.comps :
                components'[1].panel.comps[k].shown
                    <=> k - 1 \in components'[1].panel.index ..
                            components'[1].panel.index + components'[1].panel.numShown - 1]_vars

-----------------------------------------------------------------------------
\* C28: while the popup of a Dropdown is collapsed no input event changes
\* its list of rows
C28_AsStated ==
    [][(/\ components[1].kind = "Dropdown"
        /\ ~components[1].expanded
        /\ last'.op = "PollEvent")
       => /\ RowIds(components'[1]) = RowIds(components[1])
          /\ RowIdx(components'[1]) = RowIdx(components[1])]_vars

-----------------------------------------------------------------------------
\* the components that removeAt(q.arg) destroys: erase releases the row, and
\* with it the widget it wraps, its controls and their callbacks
Destroyed(c, q) == Nodes(c.panel.comps[q.arg + 1])

\* the handleEvent of n was executing when a callback ran on ev: the calls of
\* a handler's result are made before the handler returns
RanCallback(n, ev) == HandleEvent(n, ev).calls # <<>>

\* C29: when a press on the delete control of a row removes the row, none of
\* the components destroyed with it is executing the handleEvent that ran
\* the callback
C29_AsStated ==
    [][(/\ components[1].kind = "Dropdown"
        /\ last'.op = "PollEvent"
        /\ Asked(last').id = "removeAt"
        /\ InRange(components[1], Asked(last').arg))
       => \A n \in Destroyed(components[1], Asked(last')) : ~RanCallback(n, last'.ev)]_vars

-----------------------------------------------------------------------------
\* what a component shows of its own state besides hover and visibility
OwnSeen(c) ==
    CASE c.kind = "Slider" -> <<c.dragging, c.val>>
      [] c.kind = "TextInput" -> <<c.active, c.text, c.caretPos>>
      [] c.kind = "ComboBox" -> <<c.expanded, c.index, c.text>>
      [] c.kind \in {"Expandable", "ColorSelect", "Dropdown"} -> <<c.expanded>>
      [] OTHER -> <<>>

\* the observable state of c and of its subtree: hover, visibility, expanded,
\* tracking and value, active flag, text and caret, selection, list of rows
RECURSIVE Seen(_)
Seen(c) ==
    <<c.id, c.hovered, c.shown, OwnSeen(c),
      [k \in DOMAIN Children(c) |-> Seen(Children(c)[k])]>>

\* C31: whenever the dispatch of an event changes the observable state of a
\* component, the pending-redraw flag of the Window is set when the dispatch
\* ends
C31_AsStated ==
    [][(/\ last'.op = "PollEvent"
        /\ \E k \in DOMAIN components : Seen(components'[k]) # Seen(components[k]))
       => pendingUpdate']_vars

-----------------------------------------------------------------------------
\* the Panels of c and below it
PanelsOf(c) == {p \in Nodes(c) : p.kind \in {"Panel", "ScrollPanel"}}

\* the event of l was offered to the component named id
Offered(l, id) == \E k \in DOMAIN l.log : l.log[k].id = id

\* C32: after a pointer motion was dispatched through a shown Panel of
\* Buttons or ComboBox rows that do not overlap, each shown child is hovered
\* exactly when the pointer is inside it
C32_AsStated ==
    (last.op = "PollEvent" /\ last.ev.type = "MOUSEMOTION")
        => \A p \in PanelsOf(components[1]) :
              (p.shown /\ Offered(last, p.id))
                  => \A i \in DOMAIN p.comps :
                        (p.comps[i].shown /\ p.comps[i].kind \in {"Button", "Elem"})
                            => (p.comps[i].hovered
                                   <=> posInside(p.comps[i], Point(last.ev.x, last.ev.y)))

=============================================================================
